---- MODULE Spec2Model ----
(***************************************************************************)
(* Model of EthModule (buidler-evm provider, modules/eth.ts): the eth_*    *)
(* JSON-RPC dispatcher, its per-method parameter extraction, the semantic  *)
(* normalisation of block tags, filter requests, call/transaction requests *)
(* and raw transactions, and the node collaborator it drives.              *)
(*                                                                         *)
(* A request is one call of processRequest(method, params).  The state is  *)
(* the node collaborator's state plus a record of the request just         *)
(* processed: its method and params, its outcome (a returned value or a    *)
(* thrown error) and the node operations it invoked, in order, with their  *)
(* arguments.  The record is cleared when the transport takes the outcome. *)
(*                                                                         *)
(* Spec runs each request to completion before the next one starts.        *)
(* SpecInterleaved runs eth_sendTransaction requests side by side, each    *)
(* suspended at the node call it awaits.                                   *)
(***************************************************************************)
EXTENDS Integers, Sequences, FiniteSets, TLC

VARIABLES
    node,       \* EthModule._node: the node collaborator's state
    method,     \* the method name of the last request
    params,     \* the params array of the last request
    outcome,    \* what the last request returned or threw
    calls,      \* the node operations the last request invoked, in order
    sends       \* the eth_sendTransaction requests in flight, each at its await

vars == <<node, method, params, outcome, calls, sends>>

(***************************************************************************)
(* Bounds of the model.                                                    *)
(***************************************************************************)
MaxBlocks == 2          \* the chain holds at most this many blocks
MaxFilters == 2         \* the node allocates at most this many filter ids
MaxBlockNum == 2        \* explicit block numbers in requests are 0..MaxBlockNum
MaxRequests == 2        \* eth_sendTransaction requests in flight at the same time

(***************************************************************************)
(* Values.  A value, on the wire or decoded, is a record tagged by its     *)
(* kind k.  Quantities carry a number, data a byte sequence, addresses and *)
(* hashes an identifier; Malformed is a string that is no well-formed hex. *)
(***************************************************************************)
Undefined == [k |-> "undefined"]
Null == [k |-> "null"]
Malformed == [k |-> "malformed"]
Qty(n) == [k |-> "quantity", n |-> n]
Data(d) == [k |-> "data", d |-> d]
Addr(a) == [k |-> "address", a |-> a]
Hash(h) == [k |-> "hash", h |-> h]
Bool(b) == [k |-> "boolean", b |-> b]
Str(s) == [k |-> "string", s |-> s]
Fn(c) == [k |-> "function", c |-> c]
List(l) == [k |-> "array", l |-> l]

\* RpcCallRequest / RpcTransactionRequest: every field is a value or Undefined.
RpcTx(to, from, data, gas, gasPrice, value, nonce) ==
    [k |-> "txRequest", to |-> to, from |-> from, data |-> data, gas |-> gas,
     gasPrice |-> gasPrice, value |-> value, nonce |-> nonce]

\* RpcFilterRequest: every field is a value or Undefined.
RpcFilter(fromBlock, toBlock, blockHash, address, topics) ==
    [k |-> "filterRequest", fromBlock |-> fromBlock, toBlock |-> toBlock,
     blockHash |-> blockHash, address |-> address, topics |-> topics]

IsUndefined(v) == v.k = "undefined"

(***************************************************************************)
(* Outcomes: a request returns a value or throws an error of some kind     *)
(* with a message.  A message is a sequence of words, so that the tests    *)
(* the code makes on messages (equality, includes) can be computed.        *)
(***************************************************************************)
Return(v) == [ok |-> TRUE, value |-> v, error |-> "", message |-> <<>>]
Throw(kind, msg) == [ok |-> FALSE, value |-> Undefined, error |-> kind, message |-> msg]

InvalidInputError(msg) == Throw("InvalidInput", msg)
InvalidArgumentsError(msg) == Throw("InvalidArguments", msg)
MethodNotFoundError(msg) == Throw("MethodNotFound", msg)
MethodNotSupportedError(msg) == Throw("MethodNotSupported", msg)

\* A node operation invoked by a request, with its arguments.
Call(op, args) == [op |-> op, args |-> args]

\* The result of running a handler: the node afterwards, the outcome, the calls.
Done(n, out, cs) == [node |-> n, out |-> out, calls |-> cs]

\* output.ts encodings of results.
numberToRpcQuantity(n) == [k |-> "rpcQuantity", n |-> n]
bufferToRpcData(d) == [k |-> "rpcData", d |-> d]

(***************************************************************************)
(* input.ts: the argument validators and validateParams.  A validator is   *)
(* named by the io-ts type the source passes to validateParams.            *)
(***************************************************************************)
BlockTagNames == {"earliest", "latest", "pending"}
SubscribeNames == {"newHeads", "newPendingTransactions", "logs"}

IsOptional(v, kinds) == v.k = "undefined" \/ v.k \in kinds

IsBlockTag(v) == v.k = "quantity" \/ (v.k = "string" /\ v.s \in BlockTagNames)

IsTxRequest(v) ==
    /\ v.k = "txRequest"
    /\ IsOptional(v.to, {"address"})
    /\ IsOptional(v.from, {"address"})
    /\ IsOptional(v.data, {"data"})
    /\ IsOptional(v.gas, {"quantity"})
    /\ IsOptional(v.gasPrice, {"quantity"})
    /\ IsOptional(v.value, {"quantity"})
    /\ IsOptional(v.nonce, {"quantity"})

IsTopicSlot(v) ==
    \/ v.k \in {"null", "hash"}
    \/ v.k = "array" /\ \A i \in 1..Len(v.l) : v.l[i].k \in {"null", "hash"}

IsFilterRequest(v) ==
    /\ v.k = "filterRequest"
    /\ v.fromBlock.k = "undefined" \/ IsBlockTag(v.fromBlock)
    /\ v.toBlock.k = "undefined" \/ IsBlockTag(v.toBlock)
    /\ IsOptional(v.blockHash, {"hash"})
    /\ \/ IsOptional(v.address, {"address"})
       \/ v.address.k = "array" /\ \A i \in 1..Len(v.address.l) : v.address.l[i].k = "address"
    /\ \/ v.topics.k = "undefined"
       \/ v.topics.k = "array" /\ \A i \in 1..Len(v.topics.l) : IsTopicSlot(v.topics.l[i])

\* type.is(v): does the value have the shape the validator accepts?
Is(type, v) ==
    CASE type = "rpcQuantity" -> v.k = "quantity"
      [] type = "rpcData" -> v.k = "data"
      [] type = "rpcAddress" -> v.k = "address"
      [] type = "rpcHash" -> v.k = "hash"
      [] type = "boolean" -> v.k = "boolean"
      [] type = "optionalBlockTag" -> v.k = "undefined" \/ IsBlockTag(v)
      [] type = "rpcCallRequest" -> IsTxRequest(v)
      [] type = "rpcTransactionRequest" -> IsTxRequest(v) /\ v.from.k = "address"
      [] type = "rpcFilterRequest" -> IsFilterRequest(v)
      [] type = "optionalRpcFilterRequest" -> v.k = "undefined" \/ IsFilterRequest(v)
      [] type = "rpcSubscribeRequest" -> v.k = "string" /\ v.s \in SubscribeNames
      [] type = "rpcUnknown" -> TRUE
      [] OTHER -> FALSE

\* The validators marked tail-optional: a trailing argument of this type may be omitted.
TailOptional(type) == type \in {"optionalBlockTag", "optionalRpcFilterRequest"}

RECURSIVE OptionalParams(_)
\* The number of trailing tail-optional types of a schema.
OptionalParams(types) ==
    IF types = <<>> \/ ~TailOptional(types[Len(types)]) THEN 0
    ELSE 1 + OptionalParams(SubSeq(types, 1, Len(types) - 1))

\* A validated argument tuple, or the error validateParams throws.
Valid(args) == [ok |-> TRUE, args |-> args, error |-> Return(Undefined)]
Invalid(err) == [ok |-> FALSE, args |-> <<>>, error |-> err]

\* validateParams(params, ...types): arity, then the shape of every position;
\* an omitted trailing optional argument decodes to undefined.
validateParams(ps, types) ==
    LET arg(i) == IF i <= Len(ps) THEN ps[i] ELSE Undefined
    IN  IF Len(ps) > Len(types) \/ Len(ps) < Len(types) - OptionalParams(types)
        THEN Invalid(InvalidInputError(<<"wrong number of arguments">>))
        ELSE IF \E i \in 1..Len(types) : ~Is(types[i], arg(i))
        THEN Invalid(InvalidInputError(<<"invalid argument">>))
        ELSE Valid([i \in 1..Len(types) |-> arg(i)])

(***************************************************************************)
(* node.ts: the node collaborator.  Its state is a record:                 *)
(*   chain          the blocks, genesis first; a block has a hash, a       *)
(*                  number and its transactions                            *)
(*   filters        the filter table: the live filters, by id              *)
(*   nextFilterId   the id the next filter gets                            *)
(*   nonces         each account's nonce                                   *)
(*   localAccounts  the locally-controlled accounts, in order              *)
(***************************************************************************)
Accounts == {1, 2}
ZeroAddress == 0

BlockHashOf(number) == 10 + number
TxHashOf(from, nonce) == 20 + 4 * from + nonce

NewBlock(number, txs) == [hash |-> BlockHashOf(number), number |-> number, transactions |-> txs]
NoBlock == [hash |-> 0 - 1, number |-> 0 - 1, transactions |-> <<>>]

\* ethereumjs-tx Transaction: sender, nonce and hash are what this layer reads.
Tx(from, nonce) == [k |-> "transaction", from |-> from, nonce |-> nonce, hash |-> TxHashOf(from, nonce)]

getLocalAccountAddresses(n) == n.localAccounts
getLatestBlock(n) == n.chain[Len(n.chain)]
HasBlockByHash(n, h) == \E i \in 1..Len(n.chain) : n.chain[i].hash = h
getBlockByHash(n, h) ==
    IF HasBlockByHash(n, h) THEN n.chain[CHOOSE i \in 1..Len(n.chain) : n.chain[i].hash = h]
    ELSE NoBlock
HasBlockByNumber(n, num) == num + 1 \in 1..Len(n.chain)
getBlockByNumber(n, num) == IF HasBlockByNumber(n, num) THEN n.chain[num + 1] ELSE NoBlock
getBlockGasLimit(n) == n.blockGasLimit
getGasPrice(n) == n.gasPrice
getAccountNonce(n, a) == IF a \in Accounts THEN n.nonces[a] ELSE 0
getAccountBalance(n, a) == IF a \in Accounts THEN 100 - n.nonces[a] ELSE 0
getCode(n, a) == IF a = 2 THEN <<96, 0>> ELSE <<>>
getStorageAt(n, a, slot) == IF a = 2 /\ slot = 0 THEN <<7>> ELSE <<>>
runCall(n, callParams) == callParams.data.d
estimateGas(n, txParams) == 21 + Len(txParams.data.d)
getSignedTransaction(n, txParams) == Tx(txParams.from.a, txParams.nonce.n)

\* Run a transaction and produce a new block: accepted when it carries the
\* sender's current nonce, otherwise the node fails and nothing changes.
TxAccepted(n, tx) == tx.from \in Accounts /\ tx.nonce = n.nonces[tx.from]
runTransactionInNewBlock(n, tx) ==
    IF TxAccepted(n, tx)
    THEN [n EXCEPT !.chain = Append(@, NewBlock(Len(@), <<tx>>)),
                   !.nonces[tx.from] = @ + 1]
    ELSE n

\* Filters: the table keeps each live filter's id, type and whether it is a subscription.
Filter(id, type, subscription) == [id |-> id, type |-> type, subscription |-> subscription]
AddFilter(n, type, callback) ==
    [n EXCEPT !.filters = @ \cup {Filter(n.nextFilterId, type, callback.k = "function")},
              !.nextFilterId = @ + 1]
HasFilter(n, id) == \E f \in n.filters : f.id = id
uninstallFilter(n, id, subscription) == [n EXCEPT !.filters = {f \in @ : f.id # id}]

(***************************************************************************)
(* EthModule: the utility methods.  A helper that awaits the node returns  *)
(* its value (or the error it throws) together with the node operations it *)
(* invoked, in the order the source evaluates them.                        *)
(***************************************************************************)
Ok(v, cs) == [ok |-> TRUE, value |-> v, error |-> Return(Undefined), calls |-> cs]
Err(e, cs) == [ok |-> FALSE, value |-> Undefined, error |-> e, calls |-> cs]

\* A tag check that forgot "pending".
_validateBlockTag_LatestOnly(blockTag) ==
    ~( /\ blockTag # Undefined
       /\ blockTag # Str("latest") )

\* _validateBlockTag: TRUE when the tag is accepted, FALSE when it throws InvalidInput.
_validateBlockTag(blockTag) ==
    ~( /\ blockTag # Undefined
       /\ blockTag # Str("latest")
       /\ blockTag # Str("pending") )

BlockTagError == InvalidInputError(<<"Only latest and pending block params are supported">>)

\* BN.toNumber
toNumber(bn) == bn.n

\* An _extractBlock that treats "pending" as the head.
_extractBlock_PendingAsLatest(blockTag) ==
    CASE blockTag = Str("earliest") -> Ok(0, <<>>)
      [] blockTag = Undefined \/ blockTag = Str("latest") \/ blockTag = Str("pending") ->
            Ok(0 - 1, <<>>)
      [] OTHER -> Ok(toNumber(blockTag), <<>>)

\* _extractBlock: the block number a filter's fromBlock/toBlock resolves to.
_extractBlock(blockTag) ==
    CASE blockTag = Str("earliest") -> Ok(0, <<>>)
      [] blockTag = Undefined \/ blockTag = Str("latest") -> Ok(0 - 1, <<>>)
      [] blockTag = Str("pending") -> Err(InvalidArgumentsError(<<"pending not supported">>), <<>>)
      [] OTHER -> Ok(toNumber(blockTag), <<>>)

\* An _extractLogTopics that pushes a bare hash as it came.
_extractLogTopics_BareHash(logTopics) ==
    IF logTopics = Undefined \/ Len(logTopics.l) = 0 THEN <<>>
    ELSE [i \in 1..Len(logTopics.l) |-> logTopics.l[i]]

\* _extractLogTopics: every slot becomes a list of alternatives or stays null.
_extractLogTopics(logTopics) ==
    IF logTopics = Undefined \/ Len(logTopics.l) = 0 THEN <<>>
    ELSE [i \in 1..Len(logTopics.l) |->
            IF logTopics.l[i].k = "hash" THEN List(<<logTopics.l[i]>>) ELSE logTopics.l[i]]

\* _extractLogAddresses
_extractLogAddresses(address) ==
    IF address = Undefined THEN <<>>
    ELSE IF address.k = "address" THEN <<address>>
    ELSE address.l

FilterParams(fromBlock, toBlock, topics, addresses) ==
    [k |-> "filterParams", fromBlock |-> fromBlock, toBlock |-> toBlock,
     topics |-> topics, addresses |-> addresses]

\* The object literal at the end of _rpcFilterRequestToGetLogsParams.
ToFilterParams(filter, cs) ==
    LET from == _extractBlock(filter.fromBlock)
        to == _extractBlock(filter.toBlock)
    IN  IF ~from.ok THEN Err(from.error, cs)
        ELSE IF ~to.ok THEN Err(to.error, cs)
        ELSE Ok(FilterParams(from.value, to.value, _extractLogTopics(filter.topics),
                             _extractLogAddresses(filter.address)), cs)

\* A normaliser that checks blockHash against fromBlock only: with toBlock the
\* blockHash silently overrides the range.
_rpcFilterRequestToGetLogsParams_FromOnly(n, filter) ==
    IF filter.blockHash # Undefined
    THEN IF filter.fromBlock # Undefined
         THEN Err(InvalidArgumentsError(
                    <<"blockHash is mutually exclusive with fromBlock/toBlock">>), <<>>)
         ELSE LET cs == <<Call("getBlockByHash", <<filter.blockHash>>)>>
                  block == getBlockByHash(n, filter.blockHash.h)
              IN  IF ~HasBlockByHash(n, filter.blockHash.h)
                  THEN Err(InvalidArgumentsError(<<"blockHash cannot be found">>), cs)
                  ELSE ToFilterParams([filter EXCEPT !.fromBlock = Qty(block.number),
                                                     !.toBlock = Qty(block.number)], cs)
    ELSE ToFilterParams(filter, <<>>)

\* A normaliser that sets only fromBlock from the block found by hash.
_rpcFilterRequestToGetLogsParams_ToBlockLeft(n, filter) ==
    IF filter.blockHash # Undefined
    THEN IF filter.fromBlock # Undefined \/ filter.toBlock # Undefined
         THEN Err(InvalidArgumentsError(
                    <<"blockHash is mutually exclusive with fromBlock/toBlock">>), <<>>)
         ELSE LET cs == <<Call("getBlockByHash", <<filter.blockHash>>)>>
                  block == getBlockByHash(n, filter.blockHash.h)
              IN  IF ~HasBlockByHash(n, filter.blockHash.h)
                  THEN Err(InvalidArgumentsError(<<"blockHash cannot be found">>), cs)
                  ELSE ToFilterParams([filter EXCEPT !.fromBlock = Qty(block.number)], cs)
    ELSE ToFilterParams(filter, <<>>)

\* _rpcFilterRequestToGetLogsParams
_rpcFilterRequestToGetLogsParams(n, filter) ==
    IF filter.blockHash # Undefined
    THEN IF filter.fromBlock # Undefined \/ filter.toBlock # Undefined
         THEN Err(InvalidArgumentsError(
                    <<"blockHash is mutually exclusive with fromBlock/toBlock">>), <<>>)
         ELSE LET cs == <<Call("getBlockByHash", <<filter.blockHash>>)>>
                  block == getBlockByHash(n, filter.blockHash.h)
              IN  IF ~HasBlockByHash(n, filter.blockHash.h)
                  THEN Err(InvalidArgumentsError(<<"blockHash cannot be found">>), cs)
                  ELSE ToFilterParams([filter EXCEPT !.fromBlock = Qty(block.number),
                                                     !.toBlock = Qty(block.number)], cs)
    ELSE ToFilterParams(filter, <<>>)

\* A _getDefaultCallFrom that takes the last local account.
_getDefaultCallFrom_Last(n) ==
    LET localAccounts == getLocalAccountAddresses(n)
    IN  Ok(IF Len(localAccounts) = 0 THEN Addr(ZeroAddress)
           ELSE Addr(localAccounts[Len(localAccounts)]),
           <<Call("getLocalAccountAddresses", <<>>)>>)

\* _getDefaultCallFrom
_getDefaultCallFrom(n) ==
    LET localAccounts == getLocalAccountAddresses(n)
    IN  Ok(IF Len(localAccounts) = 0 THEN Addr(ZeroAddress) ELSE Addr(localAccounts[1]),
           <<Call("getLocalAccountAddresses", <<>>)>>)

CallParams(to, from, data, gasLimit, gasPrice, value) ==
    [k |-> "callParams", to |-> to, from |-> from, data |-> data,
     gasLimit |-> gasLimit, gasPrice |-> gasPrice, value |-> value]

\* _rpcCallRequestToNodeCallParams: the fields are evaluated in the order to,
\* from, data, gasLimit, gasPrice, value.
_rpcCallRequestToNodeCallParams(n, rpcCall) ==
    LET from == IF rpcCall.from # Undefined THEN Ok(rpcCall.from, <<>>) ELSE _getDefaultCallFrom(n)
        gasLimit == IF rpcCall.gas # Undefined THEN Ok(rpcCall.gas, <<>>)
                    ELSE Ok(Qty(getBlockGasLimit(n)), <<Call("getBlockGasLimit", <<>>)>>)
        gasPrice == IF rpcCall.gasPrice # Undefined THEN Ok(rpcCall.gasPrice, <<>>)
                    ELSE Ok(Qty(getGasPrice(n)), <<Call("getGasPrice", <<>>)>>)
    IN  Ok(CallParams(IF rpcCall.to # Undefined THEN rpcCall.to ELSE Data(<<>>),
                      from.value,
                      IF rpcCall.data # Undefined THEN rpcCall.data ELSE Data(<<>>),
                      gasLimit.value,
                      gasPrice.value,
                      IF rpcCall.value # Undefined THEN rpcCall.value ELSE Qty(0)),
           from.calls \o gasLimit.calls \o gasPrice.calls)

TransactionParams(to, from, gasLimit, gasPrice, value, data, nonce) ==
    [k |-> "transactionParams", to |-> to, from |-> from, gasLimit |-> gasLimit,
     gasPrice |-> gasPrice, value |-> value, data |-> data, nonce |-> nonce]

\* _rpcTransactionRequestToNodeTransactionParams: the fields are evaluated in
\* the order to, from, gasLimit, gasPrice, value, data, nonce.
_rpcTransactionRequestToNodeTransactionParams(n, rpcTx) ==
    LET gasLimit == IF rpcTx.gas # Undefined THEN Ok(rpcTx.gas, <<>>)
                    ELSE Ok(Qty(getBlockGasLimit(n)), <<Call("getBlockGasLimit", <<>>)>>)
        gasPrice == IF rpcTx.gasPrice # Undefined THEN Ok(rpcTx.gasPrice, <<>>)
                    ELSE Ok(Qty(getGasPrice(n)), <<Call("getGasPrice", <<>>)>>)
        nonce == IF rpcTx.nonce # Undefined THEN Ok(rpcTx.nonce, <<>>)
                 ELSE Ok(Qty(getAccountNonce(n, rpcTx.from.a)),
                         <<Call("getAccountNonce", <<rpcTx.from>>)>>)
    IN  Ok(TransactionParams(IF rpcTx.to # Undefined THEN rpcTx.to ELSE Data(<<>>),
                             rpcTx.from,
                             gasLimit.value,
                             gasPrice.value,
                             IF rpcTx.value # Undefined THEN rpcTx.value ELSE Qty(0),
                             IF rpcTx.data # Undefined THEN rpcTx.data ELSE Data(<<>>),
                             nonce.value),
           gasLimit.calls \o gasPrice.calls \o nonce.calls)

(***************************************************************************)
(* EthModule: the per-method parameter extractors (_xParams).              *)
(***************************************************************************)
_accountsParams(ps) == validateParams(ps, <<>>)
_blockNumberParams(ps) == validateParams(ps, <<>>)
_callParams(ps) == validateParams(ps, <<"rpcCallRequest", "optionalBlockTag">>)
_chainIdParams(ps) == validateParams(ps, <<>>)
_coinbaseParams(ps) == validateParams(ps, <<>>)
_estimateGasParams(ps) == validateParams(ps, <<"rpcTransactionRequest", "optionalBlockTag">>)
_gasPriceParams(ps) == validateParams(ps, <<>>)
_getBalanceParams(ps) == validateParams(ps, <<"rpcAddress", "optionalBlockTag">>)
_getBlockByHashParams(ps) == validateParams(ps, <<"rpcHash", "boolean">>)
_getBlockByNumberParams(ps) == validateParams(ps, <<"optionalBlockTag", "boolean">>)
_getBlockTransactionCountByHashParams(ps) == validateParams(ps, <<"rpcHash">>)
_getBlockTransactionCountByNumberParams(ps) == validateParams(ps, <<"rpcQuantity">>)
_getCodeParams(ps) == validateParams(ps, <<"rpcAddress", "optionalBlockTag">>)
_getFilterChangesParams(ps) == validateParams(ps, <<"rpcQuantity">>)
_getFilterLogsParams(ps) == validateParams(ps, <<"rpcQuantity">>)
_getLogsParams(ps) == validateParams(ps, <<"rpcFilterRequest">>)
_getStorageAtParams(ps) == validateParams(ps, <<"rpcAddress", "rpcQuantity", "optionalBlockTag">>)
_getTransactionByBlockHashAndIndexParams(ps) == validateParams(ps, <<"rpcHash", "rpcQuantity">>)
_getTransactionByBlockNumberAndIndexParams(ps) == validateParams(ps, <<"rpcQuantity", "rpcQuantity">>)
_getTransactionByHashParams(ps) == validateParams(ps, <<"rpcHash">>)
_getTransactionCountParams(ps) == validateParams(ps, <<"rpcAddress", "optionalBlockTag">>)
_getTransactionReceiptParams(ps) == validateParams(ps, <<"rpcHash">>)
_miningParams(ps) == validateParams(ps, <<>>)
\* The next three return [] whatever the params are.
_newBlockFilterParams(ps) == Valid(<<>>)
_newFilterParams(ps) == validateParams(ps, <<"rpcFilterRequest">>)
_newPendingTransactionParams(ps) == Valid(<<>>)
_pendingTransactionsParams(ps) == Valid(<<>>)
_sendRawTransactionParams(ps) == validateParams(ps, <<"rpcData">>)
_sendTransactionParams(ps) == validateParams(ps, <<"rpcTransactionRequest">>)
_signParams(ps) == validateParams(ps, <<"rpcAddress", "rpcData">>)
_signTypedDataParams(ps) == validateParams(ps, <<"rpcAddress", "rpcUnknown">>)
_syncingParams(ps) == validateParams(ps, <<>>)
_uninstallFilterParams(ps) == validateParams(ps, <<"rpcQuantity">>)
_unsubscribeParams(ps) == validateParams(ps, <<"rpcQuantity">>)

\* A _subscribeParams that takes the callback from wherever it is in the params.
_subscribeParams_AnyPosition(ps) ==
    LET at == {i \in 1..Len(ps) : ps[i].k = "function"}
    IN  IF at = {} THEN Invalid(InvalidInputError(<<"Notifications not supported">>))
        ELSE LET i == CHOOSE j \in at : \A l \in at : j <= l
                 rest == SubSeq(ps, 1, i - 1) \o SubSeq(ps, i + 1, Len(ps))
                 validatedParams ==
                     validateParams(rest, <<"rpcSubscribeRequest", "optionalRpcFilterRequest">>)
             IN  IF ~validatedParams.ok THEN validatedParams
                 ELSE Valid(Append(validatedParams.args, ps[i]))

\* _subscribeParams: the callback is popped off the end, the rest is validated
\* and the callback is pushed back as the last argument.
_subscribeParams(ps) ==
    IF Len(ps) = 0 THEN Invalid(InvalidInputError(<<"Notifications not supported">>))
    ELSE IF Len(ps) = 1
    THEN Invalid(InvalidInputError(<<"Expected subscription name as first argument">>))
    ELSE LET callback == ps[Len(ps)]
             validatedParams ==
                 validateParams(SubSeq(ps, 1, Len(ps) - 1),
                                <<"rpcSubscribeRequest", "optionalRpcFilterRequest">>)
         IN  IF callback.k # "function"
             THEN Invalid(InvalidInputError(<<"Notifications not supported">>))
             ELSE IF ~validatedParams.ok THEN validatedParams
             ELSE Valid(Append(validatedParams.args, callback))

(***************************************************************************)
(* EthModule: the actions (_xAction).  Each takes the node and the decoded *)
(* arguments and gives the node afterwards, the outcome and the node calls.*)
(***************************************************************************)
\* output.ts encodings of blocks, transactions and receipts.
getRpcBlock(block, includeTransactions) ==
    [k |-> "rpcBlock", number |-> block.number, hash |-> block.hash,
     includeTransactions |-> includeTransactions]
getRpcTransaction(tx) == [k |-> "rpcTransaction", hash |-> tx.hash]

_accountsAction(n) ==
    Done(n, Return(List([i \in 1..Len(n.localAccounts) |-> Addr(n.localAccounts[i])])),
         <<Call("getLocalAccountAddresses", <<>>)>>)

_blockNumberAction(n) ==
    Done(n, Return(numberToRpcQuantity(getLatestBlock(n).number)),
         <<Call("getLatestBlock", <<>>)>>)

_callAction(n, rpcCall, blockTag) ==
    IF ~_validateBlockTag(blockTag) THEN Done(n, BlockTagError, <<>>)
    ELSE LET callParams == _rpcCallRequestToNodeCallParams(n, rpcCall)
         IN  Done(n, Return(bufferToRpcData(runCall(n, callParams.value))),
                  Append(callParams.calls, Call("runCall", <<callParams.value>>)))

_chainIdAction(n) == Done(n, Return(numberToRpcQuantity(n.chainId)), <<>>)

_coinbaseAction(n) == Done(n, Return(Addr(n.coinbase)), <<Call("getCoinbaseAddress", <<>>)>>)

_estimateGasAction(n, transactionRequest, blockTag) ==
    IF ~_validateBlockTag(blockTag) THEN Done(n, BlockTagError, <<>>)
    ELSE LET txParams == _rpcTransactionRequestToNodeTransactionParams(n, transactionRequest)
         IN  Done(n, Return(numberToRpcQuantity(estimateGas(n, txParams.value))),
                  Append(txParams.calls, Call("estimateGas", <<txParams.value>>)))

_gasPriceAction(n) ==
    Done(n, Return(numberToRpcQuantity(getGasPrice(n))), <<Call("getGasPrice", <<>>)>>)

_getBalanceAction(n, address, blockTag) ==
    IF ~_validateBlockTag(blockTag) THEN Done(n, BlockTagError, <<>>)
    ELSE Done(n, Return(numberToRpcQuantity(getAccountBalance(n, address.a))),
              <<Call("getAccountBalance", <<address>>)>>)

_getBlockByHashAction(n, hash, includeTransactions) ==
    IF ~HasBlockByHash(n, hash.h)
    THEN Done(n, Return(Null), <<Call("getBlockByHash", <<hash>>)>>)
    ELSE Done(n, Return(getRpcBlock(getBlockByHash(n, hash.h), includeTransactions.b)),
              <<Call("getBlockByHash", <<hash>>), Call("getBlockTotalDifficulty", <<hash>>)>>)

_getBlockByNumberAction(n, tag, includeTransactions) ==
    IF tag.k = "string" /\ (tag = Str("earliest") \/ tag = Str("pending"))
    THEN Done(n, InvalidInputError(
                    <<"eth_getBlockByNumber doesn't support earliest nor pending ">>), <<>>)
    ELSE LET latest == tag.k = "string"
             found == latest \/ (tag.k = "quantity" /\ HasBlockByNumber(n, tag.n))
             block == IF latest THEN getLatestBlock(n) ELSE getBlockByNumber(n, tag.n)
             cs == IF latest THEN <<Call("getLatestBlock", <<>>)>>
                   ELSE <<Call("getBlockByNumber", <<tag>>)>>
         IN  IF ~found THEN Done(n, Return(Null), cs)
             ELSE Done(n, Return(getRpcBlock(block, includeTransactions.b)),
                       Append(cs, Call("getBlockTotalDifficulty", <<Hash(block.hash)>>)))

\* A transaction count by hash that fails for a hash no block has.
_getBlockTransactionCountByHashAction_FailsWhenUnknown(n, hash) ==
    Done(n,
         IF ~HasBlockByHash(n, hash.h) THEN InvalidArgumentsError(<<"block not found">>)
         ELSE Return(numberToRpcQuantity(Len(getBlockByHash(n, hash.h).transactions))),
         <<Call("getBlockByHash", <<hash>>)>>)

_getBlockTransactionCountByHashAction(n, hash) ==
    Done(n,
         IF ~HasBlockByHash(n, hash.h) THEN Return(Null)
         ELSE Return(numberToRpcQuantity(Len(getBlockByHash(n, hash.h).transactions))),
         <<Call("getBlockByHash", <<hash>>)>>)

_getBlockTransactionCountByNumberAction(n, blockNumber) ==
    Done(n,
         IF ~HasBlockByNumber(n, blockNumber.n) THEN Return(Null)
         ELSE Return(numberToRpcQuantity(Len(getBlockByNumber(n, blockNumber.n).transactions))),
         <<Call("getBlockByNumber", <<blockNumber>>)>>)

_getCodeAction(n, address, blockTag) ==
    IF ~_validateBlockTag(blockTag) THEN Done(n, BlockTagError, <<>>)
    ELSE Done(n, Return(bufferToRpcData(getCode(n, address.a))),
              <<Call("getCode", <<address>>)>>)

_getFilterChangesAction(n, filterId) ==
    Done(n, IF ~HasFilter(n, toNumber(filterId)) THEN Return(Null) ELSE Return(List(<<>>)),
         <<Call("getFilterChanges", <<filterId>>)>>)

_getFilterLogsAction(n, filterId) ==
    Done(n, IF ~HasFilter(n, toNumber(filterId)) THEN Return(Null) ELSE Return(List(<<>>)),
         <<Call("getFilterLogs", <<filterId>>)>>)

_getLogsAction(n, filter) ==
    LET filterParams == _rpcFilterRequestToGetLogsParams(n, filter)
    IN  IF ~filterParams.ok THEN Done(n, filterParams.error, filterParams.calls)
        ELSE Done(n, Return(List(<<>>)),
                  Append(filterParams.calls, Call("getLogs", <<filterParams.value>>)))

_getStorageAtAction(n, address, slot, blockTag) ==
    IF ~_validateBlockTag(blockTag) THEN Done(n, BlockTagError, <<>>)
    ELSE LET data == getStorageAt(n, address.a, slot.n)
         IN  Done(n,
                  IF Len(data) = 0 THEN Return(Str("0x0")) ELSE Return(bufferToRpcData(data)),
                  <<Call("getStorageAt", <<address, slot>>)>>)

\* block.transactions[i], undefined past the end.
TransactionAt(n, found, block, index, cs) ==
    IF ~found THEN Done(n, Return(Null), cs)
    ELSE IF toNumber(index) + 1 \notin 1..Len(block.transactions) THEN Done(n, Return(Null), cs)
    ELSE Done(n, Return(getRpcTransaction(block.transactions[toNumber(index) + 1])), cs)

_getTransactionByBlockHashAndIndexAction(n, hash, index) ==
    TransactionAt(n, HasBlockByHash(n, hash.h), getBlockByHash(n, hash.h), index,
                  <<Call("getBlockByHash", <<hash>>)>>)

_getTransactionByBlockNumberAndIndexAction(n, blockNumber, index) ==
    TransactionAt(n, HasBlockByNumber(n, blockNumber.n), getBlockByNumber(n, blockNumber.n),
                  index, <<Call("getBlockByNumber", <<blockNumber>>)>>)

\* The blocks of the chain that hold a transaction with this hash.
BlocksWithTransaction(n, h) ==
    {i \in 1..Len(n.chain) : \E j \in 1..Len(n.chain[i].transactions) :
                                 n.chain[i].transactions[j].hash = h}

_getTransactionByHashAction(n, hash) ==
    IF BlocksWithTransaction(n, hash.h) = {}
    THEN Done(n, Return(Null), <<Call("getSuccessfulTransactionByHash", <<hash>>)>>)
    ELSE Done(n, Return([k |-> "rpcTransaction", hash |-> hash.h]),
              <<Call("getSuccessfulTransactionByHash", <<hash>>),
                Call("getBlockByTransactionHash", <<hash>>)>>)

_getTransactionCountAction(n, address, blockTag) ==
    IF ~_validateBlockTag(blockTag) THEN Done(n, BlockTagError, <<>>)
    ELSE Done(n, Return(numberToRpcQuantity(getAccountNonce(n, address.a))),
              <<Call("getAccountNonce", <<address>>)>>)

_getTransactionReceiptAction(n, hash) ==
    IF BlocksWithTransaction(n, hash.h) = {}
    THEN Done(n, Return(Null), <<Call("getSuccessfulTransactionByHash", <<hash>>)>>)
    ELSE LET block == n.chain[CHOOSE i \in BlocksWithTransaction(n, hash.h) : TRUE]
         IN  Done(n, Return([k |-> "rpcReceipt", hash |-> hash.h, blockNumber |-> block.number]),
                  <<Call("getSuccessfulTransactionByHash", <<hash>>),
                    Call("getBlockByTransactionHash", <<hash>>),
                    Call("getTxBlockResults", <<Hash(block.hash)>>)>>)

_miningAction(n) == Done(n, Return(Bool(FALSE)), <<>>)

_newBlockFilterAction(n) ==
    Done(AddFilter(n, "block", Undefined), Return(numberToRpcQuantity(n.nextFilterId)),
         <<Call("newBlockFilter", <<Undefined>>)>>)

\* A newFilter that allocates the filter before it normalises the request.
_newFilterAction_AllocateFirst(n, filter) ==
    LET filterParams == _rpcFilterRequestToGetLogsParams(n, filter)
    IN  IF ~filterParams.ok
        THEN Done(AddFilter(n, "log", Undefined), filterParams.error, filterParams.calls)
        ELSE Done(AddFilter(n, "log", Undefined), Return(numberToRpcQuantity(n.nextFilterId)),
                  Append(filterParams.calls, Call("newFilter", <<filterParams.value, Undefined>>)))

_newFilterAction(n, filter) ==
    LET filterParams == _rpcFilterRequestToGetLogsParams(n, filter)
    IN  IF ~filterParams.ok THEN Done(n, filterParams.error, filterParams.calls)
        ELSE Done(AddFilter(n, "log", Undefined), Return(numberToRpcQuantity(n.nextFilterId)),
                  Append(filterParams.calls, Call("newFilter", <<filterParams.value, Undefined>>)))

_newPendingTransactionAction(n) ==
    Done(AddFilter(n, "pendingTransaction", Undefined),
         Return(numberToRpcQuantity(n.nextFilterId)),
         <<Call("newPendingTransactionFilter", <<Undefined>>)>>)

_pendingTransactionsAction(n) ==
    Done(n, Return(List(<<>>)), <<Call("getPendingTransactions", <<>>)>>)

\* new Transaction(rawTx, { common }): the decoded transaction, or the message
\* of the error the decoder throws.  The first byte of the model's raw bytes
\* selects what the decoder finds: 1 a well-formed transaction <<1, from, nonce>>,
\* 2 a malformed remainder, 3 a replay-protection mismatch, anything else garbage.
Transaction(rawTx) ==
    LET d == rawTx.d
    IN  IF Len(d) = 3 /\ d[1] = 1
        THEN [ok |-> TRUE, tx |-> Tx(d[2], d[3]), message |-> <<>>]
        ELSE [ok |-> FALSE, tx |-> Tx(0, 0),
              message |-> IF Len(d) > 0 /\ d[1] = 2 THEN <<"invalid remainder">>
                          ELSE IF Len(d) > 0 /\ d[1] = 3
                          THEN <<"Incompatible", "EIP155", "-based V and chain id">>
                          ELSE <<"invalid rlp">>]

\* String.prototype.includes, on a message of words.
includes(message, word) == \E i \in 1..Len(message) : message[i] = word

\* The node's own failure when it refuses a transaction; it propagates unchanged.
NodeError == Throw("TransactionExecutionError", <<"Invalid nonce">>)

\* await this._node.runTransactionInNewBlock(tx); return bufferToRpcData(tx.hash(true))
RunAndReturnHash(n, tx, cs) ==
    Done(runTransactionInNewBlock(n, tx),
         IF TxAccepted(n, tx) THEN Return(bufferToRpcData(<<tx.hash>>)) ELSE NodeError,
         Append(cs, Call("runTransactionInNewBlock", <<tx>>)))

\* A sendRawTransaction that reports every reclassified failure as "Invalid transaction".
_sendRawTransactionAction_LosesMessage(n, rawTx) ==
    LET decoded == Transaction(rawTx)
    IN  IF ~decoded.ok
        THEN IF decoded.message = <<"invalid remainder">> \/ includes(decoded.message, "EIP155")
             THEN Done(n, InvalidInputError(<<"Invalid transaction">>), <<>>)
             ELSE Done(n, Throw("Error", decoded.message), <<>>)
        ELSE RunAndReturnHash(n, decoded.tx, <<>>)

_sendRawTransactionAction(n, rawTx) ==
    LET decoded == Transaction(rawTx)
    IN  IF ~decoded.ok
        THEN IF decoded.message = <<"invalid remainder">>
             THEN Done(n, InvalidInputError(<<"Invalid transaction">>), <<>>)
             ELSE IF includes(decoded.message, "EIP155")
             THEN Done(n, InvalidInputError(decoded.message), <<>>)
             ELSE Done(n, Throw("Error", decoded.message), <<>>)
        ELSE RunAndReturnHash(n, decoded.tx, <<>>)

_sendTransactionAction(n, transactionRequest) ==
    LET txParams == _rpcTransactionRequestToNodeTransactionParams(n, transactionRequest)
        tx == getSignedTransaction(n, txParams.value)
    IN  RunAndReturnHash(n, tx, Append(txParams.calls,
                                       Call("getSignedTransaction", <<txParams.value>>)))

_signAction(n, address, data) ==
    Done(n, Return([k |-> "rpcSig", a |-> address.a, d |-> data.d]),
         <<Call("signPersonalMessage", <<address, data>>)>>)

_signTypedDataAction(n, address, typedData) ==
    Done(n, Return([k |-> "rpcSig", a |-> address.a, d |-> <<>>]),
         <<Call("signTypedData", <<address, typedData>>)>>)

\* A _subscribeAction that treats missing log criteria as the criteria that match all.
_subscribeAction_DefaultCriteria(n, subscribeRequest, optionalFilterRequest, callback) ==
    CASE subscribeRequest = Str("newHeads") ->
            Done(AddFilter(n, "block", callback), Return(numberToRpcQuantity(n.nextFilterId)),
                 <<Call("newBlockFilter", <<callback>>)>>)
      [] subscribeRequest = Str("newPendingTransactions") ->
            Done(AddFilter(n, "pendingTransaction", callback),
                 Return(numberToRpcQuantity(n.nextFilterId)),
                 <<Call("newPendingTransactionFilter", <<callback>>)>>)
      [] OTHER ->
            LET request == IF optionalFilterRequest = Undefined
                           THEN RpcFilter(Undefined, Undefined, Undefined, Undefined, Undefined)
                           ELSE optionalFilterRequest
                filterParams == _rpcFilterRequestToGetLogsParams(n, request)
            IN  IF ~filterParams.ok THEN Done(n, filterParams.error, filterParams.calls)
                ELSE Done(AddFilter(n, "log", callback),
                          Return(numberToRpcQuantity(n.nextFilterId)),
                          Append(filterParams.calls,
                                 Call("newFilter", <<filterParams.value, callback>>)))

_subscribeAction(n, subscribeRequest, optionalFilterRequest, callback) ==
    CASE subscribeRequest = Str("newHeads") ->
            Done(AddFilter(n, "block", callback), Return(numberToRpcQuantity(n.nextFilterId)),
                 <<Call("newBlockFilter", <<callback>>)>>)
      [] subscribeRequest = Str("newPendingTransactions") ->
            Done(AddFilter(n, "pendingTransaction", callback),
                 Return(numberToRpcQuantity(n.nextFilterId)),
                 <<Call("newPendingTransactionFilter", <<callback>>)>>)
      [] OTHER ->
            IF optionalFilterRequest = Undefined
            THEN Done(n, InvalidArgumentsError(<<"missing params argument">>), <<>>)
            ELSE LET filterParams == _rpcFilterRequestToGetLogsParams(n, optionalFilterRequest)
                 IN  IF ~filterParams.ok THEN Done(n, filterParams.error, filterParams.calls)
                     ELSE Done(AddFilter(n, "log", callback),
                               Return(numberToRpcQuantity(n.nextFilterId)),
                               Append(filterParams.calls,
                                      Call("newFilter", <<filterParams.value, callback>>)))

_syncingAction(n) == Done(n, Return(Bool(FALSE)), <<>>)

\* An uninstallFilter that fails for an id with no filter behind it.
_uninstallFilterAction_FailsWhenMissing(n, filterId) ==
    IF HasFilter(n, toNumber(filterId))
    THEN Done(uninstallFilter(n, toNumber(filterId), FALSE), Return(Bool(TRUE)),
              <<Call("uninstallFilter", <<filterId, Bool(FALSE)>>)>>)
    ELSE Done(n, InvalidArgumentsError(<<"filter not found">>),
              <<Call("uninstallFilter", <<filterId, Bool(FALSE)>>)>>)

_uninstallFilterAction(n, filterId) ==
    Done(uninstallFilter(n, toNumber(filterId), FALSE), Return(Bool(HasFilter(n, toNumber(filterId)))),
         <<Call("uninstallFilter", <<filterId, Bool(FALSE)>>)>>)

_unsubscribeAction(n, filterId) ==
    Done(uninstallFilter(n, toNumber(filterId), TRUE), Return(Bool(HasFilter(n, toNumber(filterId)))),
         <<Call("uninstallFilter", <<filterId, Bool(TRUE)>>)>>)

(***************************************************************************)
(* EthModule.processRequest: the dispatch on the method name.              *)
(***************************************************************************)
\* A dispatch that lost the case for eth_getProof.
UnsupportedMethods_NoProof ==
    {"eth_compileLLL", "eth_compileSerpent", "eth_compileSolidity", "eth_getCompilers",
     "eth_getUncleByBlockHashAndIndex", "eth_getUncleByBlockNumberAndIndex",
     "eth_getUncleCountByBlockHash", "eth_getUncleCountByBlockNumber", "eth_getWork",
     "eth_hashrate", "eth_protocolVersion", "eth_signTransaction", "eth_submitHashrate",
     "eth_submitWork"}

UnsupportedMethods ==
    {"eth_compileLLL", "eth_compileSerpent", "eth_compileSolidity", "eth_getCompilers",
     "eth_getProof", "eth_getUncleByBlockHashAndIndex", "eth_getUncleByBlockNumberAndIndex",
     "eth_getUncleCountByBlockHash", "eth_getUncleCountByBlockNumber", "eth_getWork",
     "eth_hashrate", "eth_protocolVersion", "eth_signTransaction", "eth_submitHashrate",
     "eth_submitWork"}

\* The params extractor threw: nothing else happens.
Rejected(n, p) == Done(n, p.error, <<>>)

\* return this._xAction(...this._xParams(params))
Then(n, p, Action(_)) == IF p.ok THEN Action(p.args) ELSE Rejected(n, p)

processRequest(n, m, ps) ==
    CASE m = "eth_accounts" ->
            Then(n, _accountsParams(ps), LAMBDA a : _accountsAction(n))
      [] m = "eth_blockNumber" ->
            Then(n, _blockNumberParams(ps), LAMBDA a : _blockNumberAction(n))
      [] m = "eth_call" ->
            Then(n, _callParams(ps), LAMBDA a : _callAction(n, a[1], a[2]))
      [] m = "eth_chainId" ->
            Then(n, _chainIdParams(ps), LAMBDA a : _chainIdAction(n))
      [] m = "eth_coinbase" ->
            Then(n, _coinbaseParams(ps), LAMBDA a : _coinbaseAction(n))
      [] m = "eth_estimateGas" ->
            Then(n, _estimateGasParams(ps), LAMBDA a : _estimateGasAction(n, a[1], a[2]))
      [] m = "eth_gasPrice" ->
            Then(n, _gasPriceParams(ps), LAMBDA a : _gasPriceAction(n))
      [] m = "eth_getBalance" ->
            Then(n, _getBalanceParams(ps), LAMBDA a : _getBalanceAction(n, a[1], a[2]))
      [] m = "eth_getBlockByHash" ->
            Then(n, _getBlockByHashParams(ps), LAMBDA a : _getBlockByHashAction(n, a[1], a[2]))
      [] m = "eth_getBlockByNumber" ->
            Then(n, _getBlockByNumberParams(ps), LAMBDA a : _getBlockByNumberAction(n, a[1], a[2]))
      [] m = "eth_getBlockTransactionCountByHash" ->
            Then(n, _getBlockTransactionCountByHashParams(ps), LAMBDA a : _getBlockTransactionCountByHashAction(n, a[1]))
      [] m = "eth_getBlockTransactionCountByNumber" ->
            Then(n, _getBlockTransactionCountByNumberParams(ps), LAMBDA a : _getBlockTransactionCountByNumberAction(n, a[1]))
      [] m = "eth_getCode" ->
            Then(n, _getCodeParams(ps), LAMBDA a : _getCodeAction(n, a[1], a[2]))
      [] m = "eth_getFilterChanges" ->
            Then(n, _getFilterChangesParams(ps), LAMBDA a : _getFilterChangesAction(n, a[1]))
      [] m = "eth_getFilterLogs" ->
            Then(n, _getFilterLogsParams(ps), LAMBDA a : _getFilterLogsAction(n, a[1]))
      [] m = "eth_getLogs" ->
            Then(n, _getLogsParams(ps), LAMBDA a : _getLogsAction(n, a[1]))
      [] m = "eth_getStorageAt" ->
            Then(n, _getStorageAtParams(ps), LAMBDA a : _getStorageAtAction(n, a[1], a[2], a[3]))
      [] m = "eth_getTransactionByBlockHashAndIndex" ->
            Then(n, _getTransactionByBlockHashAndIndexParams(ps), LAMBDA a : _getTransactionByBlockHashAndIndexAction(n, a[1], a[2]))
      [] m = "eth_getTransactionByBlockNumberAndIndex" ->
            Then(n, _getTransactionByBlockNumberAndIndexParams(ps), LAMBDA a : _getTransactionByBlockNumberAndIndexAction(n, a[1], a[2]))
      [] m = "eth_getTransactionByHash" ->
            Then(n, _getTransactionByHashParams(ps), LAMBDA a : _getTransactionByHashAction(n, a[1]))
      [] m = "eth_getTransactionCount" ->
            Then(n, _getTransactionCountParams(ps), LAMBDA a : _getTransactionCountAction(n, a[1], a[2]))
      [] m = "eth_getTransactionReceipt" ->
            Then(n, _getTransactionReceiptParams(ps), LAMBDA a : _getTransactionReceiptAction(n, a[1]))
      [] m = "eth_mining" ->
            Then(n, _miningParams(ps), LAMBDA a : _miningAction(n))
      [] m = "eth_newBlockFilter" ->
            Then(n, _newBlockFilterParams(ps), LAMBDA a : _newBlockFilterAction(n))
      [] m = "eth_newFilter" ->
            Then(n, _newFilterParams(ps), LAMBDA a : _newFilterAction(n, a[1]))
      [] m = "eth_newPendingTransactionFilter" ->
            Then(n, _newPendingTransactionParams(ps), LAMBDA a : _newPendingTransactionAction(n))
      [] m = "eth_pendingTransactions" ->
            Then(n, _pendingTransactionsParams(ps), LAMBDA a : _pendingTransactionsAction(n))
      [] m = "eth_sendRawTransaction" ->
            Then(n, _sendRawTransactionParams(ps), LAMBDA a : _sendRawTransactionAction(n, a[1]))
      [] m = "eth_sendTransaction" ->
            Then(n, _sendTransactionParams(ps), LAMBDA a : _sendTransactionAction(n, a[1]))
      [] m = "eth_sign" ->
            Then(n, _signParams(ps), LAMBDA a : _signAction(n, a[1], a[2]))
      [] m = "eth_signTypedData" ->
            Then(n, _signTypedDataParams(ps), LAMBDA a : _signTypedDataAction(n, a[1], a[2]))
      [] m = "eth_subscribe" ->
            Then(n, _subscribeParams(ps), LAMBDA a : _subscribeAction(n, a[1], a[2], a[3]))
      [] m = "eth_syncing" ->
            Then(n, _syncingParams(ps), LAMBDA a : _syncingAction(n))
      [] m = "eth_uninstallFilter" ->
            Then(n, _uninstallFilterParams(ps), LAMBDA a : _uninstallFilterAction(n, a[1]))
      [] m = "eth_unsubscribe" ->
            Then(n, _unsubscribeParams(ps), LAMBDA a : _unsubscribeAction(n, a[1]))
      [] m \in UnsupportedMethods ->
            Done(n, MethodNotSupportedError(<<"Method", m, "is not supported">>), <<>>)
      [] OTHER ->
            Done(n, MethodNotFoundError(<<"Method", m, "not found">>), <<>>)

(***************************************************************************)
(* The requests the model sends: for every method the params it is tried   *)
(* with.  Every set holds well-formed requests, requests with too many and *)
(* too few arguments, and a request with a malformed argument.             *)
(***************************************************************************)
BlockNumbers == {Qty(i) : i \in 0..MaxBlockNum}
BlockTags == {Str("latest"), Str("pending"), Str("earliest")} \cup BlockNumbers

\* A params array with the optional trailing block tag in each of its forms.
WithTags(ps) == {ps} \cup {Append(ps, t) : t \in BlockTags}

\* The arity probes of a schema whose full-length params are ps.
TooMany(ps) == Append(ps, Qty(0))
TooFew(ps) == SubSeq(ps, 1, Len(ps) - 1)

NoArgInputs == {<<>>, <<Qty(0)>>, <<Qty(0), Str("latest")>>}

\* Call requests: each field supplied or omitted.
FullCall == RpcTx(Addr(1), Addr(1), Data(<<5>>), Qty(3), Qty(4), Qty(6), Undefined)
EmptyCall == RpcTx(Undefined, Undefined, Undefined, Undefined, Undefined, Undefined, Undefined)
CallRequests ==
    {RpcTx(to, from, data, gas, gasPrice, value, Undefined) :
        to \in {Undefined, FullCall.to}, from \in {Undefined, FullCall.from},
        data \in {Undefined, FullCall.data}, gas \in {Undefined, FullCall.gas},
        gasPrice \in {Undefined, FullCall.gasPrice}, value \in {Undefined, FullCall.value}}
CallInputs ==
    {<<r>> : r \in CallRequests}
        \cup WithTags(<<FullCall>>) \cup WithTags(<<EmptyCall>>)
        \cup {<<>>, TooMany(<<EmptyCall, Str("latest")>>), <<Malformed>>,
              <<[EmptyCall EXCEPT !.gas = Malformed]>>}

\* Transaction requests: from is mandatory, nonce supplied or omitted.
TxRequest(from, nonce) ==
    RpcTx(Undefined, Addr(from), Data(<<5>>), Undefined, Undefined, Undefined, nonce)
TxRequests ==
    {TxRequest(a, nonce) : a \in Accounts, nonce \in {Undefined, Qty(0), Qty(1)}}
EstimateGasInputs ==
    WithTags(<<TxRequest(1, Undefined)>>) \cup WithTags(<<TxRequest(2, Qty(1))>>)
        \cup {<<>>, TooMany(<<TxRequest(1, Undefined), Str("latest")>>), <<EmptyCall>>}
SendTransactionInputs ==
    {<<r>> : r \in TxRequests}
        \cup {<<>>, TooMany(<<TxRequest(1, Undefined)>>), <<EmptyCall>>, <<Malformed>>,
              <<[TxRequest(1, Undefined) EXCEPT !.gas = Qty(3)]>>,
              <<[TxRequest(2, Undefined) EXCEPT !.gas = Qty(3), !.gasPrice = Qty(4)]>>}

AddressInputs ==
    UNION {WithTags(<<Addr(a)>>) : a \in Accounts}
        \cup {<<>>, TooMany(<<Addr(1), Str("latest")>>), <<Malformed>>}
StorageInputs ==
    UNION {WithTags(<<Addr(2), Qty(slot)>>) : slot \in {0, 1}}
        \cup {<<Addr(2)>>, TooMany(<<Addr(2), Qty(0), Str("latest")>>), <<Addr(2), Malformed>>}

\* Hashes: of the genesis block, of the first mined block, of a transaction, unknown.
Hashes == {Hash(BlockHashOf(0)), Hash(BlockHashOf(1)), Hash(TxHashOf(1, 0)), Hash(99)}
HashInputs == {<<h>> : h \in Hashes} \cup {<<>>, TooMany(<<Hash(99)>>), <<Malformed>>}
BlockByHashInputs ==
    {<<h, Bool(b)>> : h \in Hashes, b \in BOOLEAN}
        \cup {<<Hash(99)>>, TooMany(<<Hash(99), Bool(TRUE)>>)}
BlockByNumberInputs ==
    {<<t, Bool(TRUE)>> : t \in BlockTags}
        \cup {<<Bool(TRUE)>>, TooMany(<<Str("latest"), Bool(TRUE)>>)}
QuantityInputs == {<<q>> : q \in BlockNumbers} \cup {<<>>, TooMany(<<Qty(0)>>), <<Malformed>>}
HashIndexInputs ==
    {<<h, Qty(i)>> : h \in Hashes, i \in {0, 1}}
        \cup {<<Hash(99)>>, TooMany(<<Hash(99), Qty(0)>>)}
NumberIndexInputs ==
    {<<q, Qty(i)>> : q \in BlockNumbers, i \in {0, 1}}
        \cup {<<Qty(0)>>, TooMany(<<Qty(0), Qty(0)>>)}
FilterIdInputs ==
    {<<Qty(i)>> : i \in 0..MaxFilters} \cup {<<>>, TooMany(<<Qty(0)>>), <<Str("latest")>>}
SignInputs ==
    {<<Addr(1), Data(<<5>>)>>, <<Addr(1)>>, TooMany(<<Addr(1), Data(<<5>>)>>),
     <<Addr(1), Malformed>>}
SignTypedDataInputs ==
    {<<Addr(1), Str("typed data")>>, <<Addr(1)>>, TooMany(<<Addr(1), Str("typed data")>>)}

\* Raw transactions: well-formed ones, and bytes the decoder rejects in each way.
RawTransactions ==
    {Data(<<1, a, nonce>>) : a \in Accounts, nonce \in {0, 1}}
        \cup {Data(<<2>>), Data(<<3>>), Data(<<4>>), Data(<<>>)}
SendRawTransactionInputs ==
    {<<raw>> : raw \in RawTransactions}
        \cup {<<>>, TooMany(<<Data(<<2>>)>>), <<Malformed>>}

\* Filter requests.  Ranges: each bound in every form, alone and in pairs.
RangeBounds == {Undefined} \cup BlockTags
Topic1 == Hash(31)
Topic2 == Hash(32)
TopicLists ==
    {Undefined, List(<<>>), List(<<Topic1>>), List(<<Null, Topic2>>),
     List(<<List(<<Topic2, Topic1>>), Null, Topic1>>),
     List(<<Topic1, List(<<Topic1>>), List(<<Null, Topic2>>)>>)}
AddressLists == {Undefined, Addr(1), List(<<Addr(2), Addr(1)>>)}
RangeRequests ==
    {RpcFilter(f, Undefined, Undefined, Undefined, Undefined) : f \in RangeBounds}
        \cup {RpcFilter(Undefined, t, Undefined, Undefined, Undefined) : t \in RangeBounds}
        \cup {RpcFilter(Str("pending"), Str("earliest"), Undefined, Undefined, Undefined),
              RpcFilter(Str("earliest"), Str("pending"), Undefined, Undefined, Undefined),
              RpcFilter(Str("earliest"), Str("latest"), Undefined, Undefined, Undefined),
              RpcFilter(Qty(1), Qty(0), Undefined, Undefined, Undefined)}
BlockHashRequests ==
    {RpcFilter(f, t, h, Undefined, List(<<Topic1>>)) :
        f \in {Undefined, Str("latest")}, t \in {Undefined, Qty(0)},
        h \in {Hash(BlockHashOf(0)), Hash(BlockHashOf(1)), Hash(99)}}
TopicRequests ==
    {RpcFilter(Undefined, Undefined, Undefined, a, ts) : a \in AddressLists, ts \in TopicLists}
FilterRequests == RangeRequests \cup BlockHashRequests \cup TopicRequests
FilterInputs ==
    {<<f>> : f \in FilterRequests}
        \cup {<<>>, TooMany(<<RpcFilter(Undefined, Undefined, Undefined, Undefined, Undefined)>>),
              <<Malformed>>,
              <<RpcFilter(Malformed, Undefined, Undefined, Undefined, Undefined)>>}
Callback == Fn(1)
SubscribeInputs ==
    {<<Str("logs"), f, Callback>> : f \in FilterRequests}
        \cup {<<Str(s), Callback>> : s \in SubscribeNames}
        \cup {<<>>, <<Callback>>, <<Str("newHeads")>>, <<Callback, Str("newHeads")>>,
              <<Str("newHeads"), Callback, Str("latest")>>,
              <<Str("latest"), Callback>>,
              <<Str("newHeads"), Undefined, Callback>>,
              <<Str("logs"), Undefined, Callback>>,
              <<Callback, Callback>>, <<Str("newHeads"), Callback, Callback>>,
              <<Callback, Str("newHeads"), Callback>>,
              <<Str("logs"), Callback, Str("newHeads")>>,
              <<Str("logs"), Malformed, Callback>>,
              TooMany(<<Str("newHeads"), EmptyCall, Callback>>),
              <<Str("newHeads"), RpcFilter(Undefined, Undefined, Undefined, Undefined, Undefined),
                Qty(0), Callback>>}

\* The method names of the protocol surface, by support status.
SupportedNames ==
    {"eth_accounts", "eth_blockNumber", "eth_chainId", "eth_coinbase", "eth_gasPrice",
     "eth_syncing", "eth_mining",
     "eth_call", "eth_estimateGas", "eth_getBalance", "eth_getCode", "eth_getStorageAt",
     "eth_getTransactionCount",
     "eth_getBlockByHash", "eth_getBlockByNumber", "eth_getBlockTransactionCountByHash",
     "eth_getBlockTransactionCountByNumber",
     "eth_getTransactionByHash", "eth_getTransactionByBlockHashAndIndex",
     "eth_getTransactionByBlockNumberAndIndex", "eth_getTransactionReceipt",
     "eth_sendRawTransaction", "eth_sendTransaction", "eth_pendingTransactions",
     "eth_sign", "eth_signTypedData",
     "eth_newFilter", "eth_newBlockFilter", "eth_newPendingTransactionFilter",
     "eth_getFilterChanges", "eth_getFilterLogs", "eth_uninstallFilter", "eth_getLogs",
     "eth_subscribe", "eth_unsubscribe"}
UnsupportedNames ==
    {"eth_protocolVersion", "eth_hashrate", "eth_getProof",
     "eth_getUncleByBlockHashAndIndex", "eth_getUncleByBlockNumberAndIndex",
     "eth_getUncleCountByBlockHash", "eth_getUncleCountByBlockNumber",
     "eth_signTransaction", "eth_submitWork", "eth_submitHashrate", "eth_getWork",
     "eth_compileLLL", "eth_compileSerpent", "eth_compileSolidity", "eth_getCompilers"}
\* Names outside the surface.
UnknownNames == {"eth_unknown", "eth_getProofs", "eth_Call", "net_version", ""}

(***************************************************************************)
(* The state machine.                                                      *)
(***************************************************************************)
\* No request is being processed: none was made yet, or the last was answered.
NoOutcome == [ok |-> FALSE, value |-> Undefined, error |-> "", message |-> <<>>]

\* The slots of the eth_sendTransaction requests the transport has in flight.
Requests == 1..MaxRequests

\* A request in flight is at the node call it awaits next (pc), with the
\* locals of _sendTransactionAction and of the object literal being built by
\* _rpcTransactionRequestToNodeTransactionParams: the request, the fields
\* resolved so far, the signed transaction, the outcome and the node calls made.
NotSent ==
    [pc |-> "", rpcTx |-> Undefined, gasLimit |-> Undefined, gasPrice |-> Undefined,
     nonce |-> Undefined, tx |-> Undefined, out |-> NoOutcome, calls |-> <<>>]

Init ==
    /\ node \in {[chain |-> <<NewBlock(0, <<>>)>>,
                  filters |-> {},
                  nextFilterId |-> 0,
                  nonces |-> [a \in Accounts |-> 0],
                  localAccounts |-> accounts,
                  blockGasLimit |-> 9,
                  gasPrice |-> 8,
                  chainId |-> 3,
                  coinbase |-> 2] : accounts \in {<<>>, <<2, 1>>}}
    /\ method = ""
    /\ params = <<>>
    /\ outcome = NoOutcome
    /\ calls = <<>>
    /\ sends = [r \in Requests |-> NotSent]

\* A request is taken when none is being processed.
Idle == outcome = NoOutcome

\* A request runs only while the node stays within the bounds of the model.
WithinBounds(r) ==
    /\ Len(r.node.chain) <= MaxBlocks
    /\ r.node.nextFilterId <= MaxFilters

\* One action per method: the transport hands processRequest the method and
\* params, and the request runs to completion against the node.
eth_accounts ==
    /\ Idle
    /\ UNCHANGED sends
    /\ \E ps \in NoArgInputs :
         \E r \in {processRequest(node, "eth_accounts", ps)} :
            /\ WithinBounds(r)
            /\ node' = r.node /\ method' = "eth_accounts" /\ params' = ps
            /\ outcome' = r.out /\ calls' = r.calls

eth_blockNumber ==
    /\ Idle
    /\ UNCHANGED sends
    /\ \E ps \in NoArgInputs :
         \E r \in {processRequest(node, "eth_blockNumber", ps)} :
            /\ WithinBounds(r)
            /\ node' = r.node /\ method' = "eth_blockNumber" /\ params' = ps
            /\ outcome' = r.out /\ calls' = r.calls

eth_call ==
    /\ Idle
    /\ UNCHANGED sends
    /\ \E ps \in CallInputs :
         \E r \in {processRequest(node, "eth_call", ps)} :
            /\ WithinBounds(r)
            /\ node' = r.node /\ method' = "eth_call" /\ params' = ps
            /\ outcome' = r.out /\ calls' = r.calls

eth_chainId ==
    /\ Idle
    /\ UNCHANGED sends
    /\ \E ps \in NoArgInputs :
         \E r \in {processRequest(node, "eth_chainId", ps)} :
            /\ WithinBounds(r)
            /\ node' = r.node /\ method' = "eth_chainId" /\ params' = ps
            /\ outcome' = r.out /\ calls' = r.calls

eth_coinbase ==
    /\ Idle
    /\ UNCHANGED sends
    /\ \E ps \in NoArgInputs :
         \E r \in {processRequest(node, "eth_coinbase", ps)} :
            /\ WithinBounds(r)
            /\ node' = r.node /\ method' = "eth_coinbase" /\ params' = ps
            /\ outcome' = r.out /\ calls' = r.calls

eth_estimateGas ==
    /\ Idle
    /\ UNCHANGED sends
    /\ \E ps \in EstimateGasInputs :
         \E r \in {processRequest(node, "eth_estimateGas", ps)} :
            /\ WithinBounds(r)
            /\ node' = r.node /\ method' = "eth_estimateGas" /\ params' = ps
            /\ outcome' = r.out /\ calls' = r.calls

eth_gasPrice ==
    /\ Idle
    /\ UNCHANGED sends
    /\ \E ps \in NoArgInputs :
         \E r \in {processRequest(node, "eth_gasPrice", ps)} :
            /\ WithinBounds(r)
            /\ node' = r.node /\ method' = "eth_gasPrice" /\ params' = ps
            /\ outcome' = r.out /\ calls' = r.calls

eth_getBalance ==
    /\ Idle
    /\ UNCHANGED sends
    /\ \E ps \in AddressInputs :
         \E r \in {processRequest(node, "eth_getBalance", ps)} :
            /\ WithinBounds(r)
            /\ node' = r.node /\ method' = "eth_getBalance" /\ params' = ps
            /\ outcome' = r.out /\ calls' = r.calls

eth_getBlockByHash ==
    /\ Idle
    /\ UNCHANGED sends
    /\ \E ps \in BlockByHashInputs :
         \E r \in {processRequest(node, "eth_getBlockByHash", ps)} :
            /\ WithinBounds(r)
            /\ node' = r.node /\ method' = "eth_getBlockByHash" /\ params' = ps
            /\ outcome' = r.out /\ calls' = r.calls

eth_getBlockByNumber ==
    /\ Idle
    /\ UNCHANGED sends
    /\ \E ps \in BlockByNumberInputs :
         \E r \in {processRequest(node, "eth_getBlockByNumber", ps)} :
            /\ WithinBounds(r)
            /\ node' = r.node /\ method' = "eth_getBlockByNumber" /\ params' = ps
            /\ outcome' = r.out /\ calls' = r.calls

eth_getBlockTransactionCountByHash ==
    /\ Idle
    /\ UNCHANGED sends
    /\ \E ps \in HashInputs :
         \E r \in {processRequest(node, "eth_getBlockTransactionCountByHash", ps)} :
            /\ WithinBounds(r)
            /\ node' = r.node /\ method' = "eth_getBlockTransactionCountByHash" /\ params' = ps
            /\ outcome' = r.out /\ calls' = r.calls

eth_getBlockTransactionCountByNumber ==
    /\ Idle
    /\ UNCHANGED sends
    /\ \E ps \in QuantityInputs :
         \E r \in {processRequest(node, "eth_getBlockTransactionCountByNumber", ps)} :
            /\ WithinBounds(r)
            /\ node' = r.node /\ method' = "eth_getBlockTransactionCountByNumber" /\ params' = ps
            /\ outcome' = r.out /\ calls' = r.calls

eth_getCode ==
    /\ Idle
    /\ UNCHANGED sends
    /\ \E ps \in AddressInputs :
         \E r \in {processRequest(node, "eth_getCode", ps)} :
            /\ WithinBounds(r)
            /\ node' = r.node /\ method' = "eth_getCode" /\ params' = ps
            /\ outcome' = r.out /\ calls' = r.calls

eth_getFilterChanges ==
    /\ Idle
    /\ UNCHANGED sends
    /\ \E ps \in FilterIdInputs :
         \E r \in {processRequest(node, "eth_getFilterChanges", ps)} :
            /\ WithinBounds(r)
            /\ node' = r.node /\ method' = "eth_getFilterChanges" /\ params' = ps
            /\ outcome' = r.out /\ calls' = r.calls

eth_getFilterLogs ==
    /\ Idle
    /\ UNCHANGED sends
    /\ \E ps \in FilterIdInputs :
         \E r \in {processRequest(node, "eth_getFilterLogs", ps)} :
            /\ WithinBounds(r)
            /\ node' = r.node /\ method' = "eth_getFilterLogs" /\ params' = ps
            /\ outcome' = r.out /\ calls' = r.calls

eth_getLogs ==
    /\ Idle
    /\ UNCHANGED sends
    /\ \E ps \in FilterInputs :
         \E r \in {processRequest(node, "eth_getLogs", ps)} :
            /\ WithinBounds(r)
            /\ node' = r.node /\ method' = "eth_getLogs" /\ params' = ps
            /\ outcome' = r.out /\ calls' = r.calls

eth_getStorageAt ==
    /\ Idle
    /\ UNCHANGED sends
    /\ \E ps \in StorageInputs :
         \E r \in {processRequest(node, "eth_getStorageAt", ps)} :
            /\ WithinBounds(r)
            /\ node' = r.node /\ method' = "eth_getStorageAt" /\ params' = ps
            /\ outcome' = r.out /\ calls' = r.calls

eth_getTransactionByBlockHashAndIndex ==
    /\ Idle
    /\ UNCHANGED sends
    /\ \E ps \in HashIndexInputs :
         \E r \in {processRequest(node, "eth_getTransactionByBlockHashAndIndex", ps)} :
            /\ WithinBounds(r)
            /\ node' = r.node /\ method' = "eth_getTransactionByBlockHashAndIndex" /\ params' = ps
            /\ outcome' = r.out /\ calls' = r.calls

eth_getTransactionByBlockNumberAndIndex ==
    /\ Idle
    /\ UNCHANGED sends
    /\ \E ps \in NumberIndexInputs :
         \E r \in {processRequest(node, "eth_getTransactionByBlockNumberAndIndex", ps)} :
            /\ WithinBounds(r)
            /\ node' = r.node /\ method' = "eth_getTransactionByBlockNumberAndIndex" /\ params' = ps
            /\ outcome' = r.out /\ calls' = r.calls

eth_getTransactionByHash ==
    /\ Idle
    /\ UNCHANGED sends
    /\ \E ps \in HashInputs :
         \E r \in {processRequest(node, "eth_getTransactionByHash", ps)} :
            /\ WithinBounds(r)
            /\ node' = r.node /\ method' = "eth_getTransactionByHash" /\ params' = ps
            /\ outcome' = r.out /\ calls' = r.calls

eth_getTransactionCount ==
    /\ Idle
    /\ UNCHANGED sends
    /\ \E ps \in AddressInputs :
         \E r \in {processRequest(node, "eth_getTransactionCount", ps)} :
            /\ WithinBounds(r)
            /\ node' = r.node /\ method' = "eth_getTransactionCount" /\ params' = ps
            /\ outcome' = r.out /\ calls' = r.calls

eth_getTransactionReceipt ==
    /\ Idle
    /\ UNCHANGED sends
    /\ \E ps \in HashInputs :
         \E r \in {processRequest(node, "eth_getTransactionReceipt", ps)} :
            /\ WithinBounds(r)
            /\ node' = r.node /\ method' = "eth_getTransactionReceipt" /\ params' = ps
            /\ outcome' = r.out /\ calls' = r.calls

eth_mining ==
    /\ Idle
    /\ UNCHANGED sends
    /\ \E ps \in NoArgInputs :
         \E r \in {processRequest(node, "eth_mining", ps)} :
            /\ WithinBounds(r)
            /\ node' = r.node /\ method' = "eth_mining" /\ params' = ps
            /\ outcome' = r.out /\ calls' = r.calls

eth_newBlockFilter ==
    /\ Idle
    /\ UNCHANGED sends
    /\ \E ps \in NoArgInputs :
         \E r \in {processRequest(node, "eth_newBlockFilter", ps)} :
            /\ WithinBounds(r)
            /\ node' = r.node /\ method' = "eth_newBlockFilter" /\ params' = ps
            /\ outcome' = r.out /\ calls' = r.calls

eth_newFilter ==
    /\ Idle
    /\ UNCHANGED sends
    /\ \E ps \in FilterInputs :
         \E r \in {processRequest(node, "eth_newFilter", ps)} :
            /\ WithinBounds(r)
            /\ node' = r.node /\ method' = "eth_newFilter" /\ params' = ps
            /\ outcome' = r.out /\ calls' = r.calls

eth_newPendingTransactionFilter ==
    /\ Idle
    /\ UNCHANGED sends
    /\ \E ps \in NoArgInputs :
         \E r \in {processRequest(node, "eth_newPendingTransactionFilter", ps)} :
            /\ WithinBounds(r)
            /\ node' = r.node /\ method' = "eth_newPendingTransactionFilter" /\ params' = ps
            /\ outcome' = r.out /\ calls' = r.calls

eth_pendingTransactions ==
    /\ Idle
    /\ UNCHANGED sends
    /\ \E ps \in NoArgInputs :
         \E r \in {processRequest(node, "eth_pendingTransactions", ps)} :
            /\ WithinBounds(r)
            /\ node' = r.node /\ method' = "eth_pendingTransactions" /\ params' = ps
            /\ outcome' = r.out /\ calls' = r.calls

eth_sendRawTransaction ==
    /\ Idle
    /\ UNCHANGED sends
    /\ \E ps \in SendRawTransactionInputs :
         \E r \in {processRequest(node, "eth_sendRawTransaction", ps)} :
            /\ WithinBounds(r)
            /\ node' = r.node /\ method' = "eth_sendRawTransaction" /\ params' = ps
            /\ outcome' = r.out /\ calls' = r.calls

eth_sendTransaction ==
    /\ Idle
    /\ UNCHANGED sends
    /\ \E ps \in SendTransactionInputs :
         \E r \in {processRequest(node, "eth_sendTransaction", ps)} :
            /\ WithinBounds(r)
            /\ node' = r.node /\ method' = "eth_sendTransaction" /\ params' = ps
            /\ outcome' = r.out /\ calls' = r.calls

eth_sign ==
    /\ Idle
    /\ UNCHANGED sends
    /\ \E ps \in SignInputs :
         \E r \in {processRequest(node, "eth_sign", ps)} :
            /\ WithinBounds(r)
            /\ node' = r.node /\ method' = "eth_sign" /\ params' = ps
            /\ outcome' = r.out /\ calls' = r.calls

eth_signTypedData ==
    /\ Idle
    /\ UNCHANGED sends
    /\ \E ps \in SignTypedDataInputs :
         \E r \in {processRequest(node, "eth_signTypedData", ps)} :
            /\ WithinBounds(r)
            /\ node' = r.node /\ method' = "eth_signTypedData" /\ params' = ps
            /\ outcome' = r.out /\ calls' = r.calls

eth_subscribe ==
    /\ Idle
    /\ UNCHANGED sends
    /\ \E ps \in SubscribeInputs :
         \E r \in {processRequest(node, "eth_subscribe", ps)} :
            /\ WithinBounds(r)
            /\ node' = r.node /\ method' = "eth_subscribe" /\ params' = ps
            /\ outcome' = r.out /\ calls' = r.calls

eth_syncing ==
    /\ Idle
    /\ UNCHANGED sends
    /\ \E ps \in NoArgInputs :
         \E r \in {processRequest(node, "eth_syncing", ps)} :
            /\ WithinBounds(r)
            /\ node' = r.node /\ method' = "eth_syncing" /\ params' = ps
            /\ outcome' = r.out /\ calls' = r.calls

eth_uninstallFilter ==
    /\ Idle
    /\ UNCHANGED sends
    /\ \E ps \in FilterIdInputs :
         \E r \in {processRequest(node, "eth_uninstallFilter", ps)} :
            /\ WithinBounds(r)
            /\ node' = r.node /\ method' = "eth_uninstallFilter" /\ params' = ps
            /\ outcome' = r.out /\ calls' = r.calls

eth_unsubscribe ==
    /\ Idle
    /\ UNCHANGED sends
    /\ \E ps \in FilterIdInputs :
         \E r \in {processRequest(node, "eth_unsubscribe", ps)} :
            /\ WithinBounds(r)
            /\ node' = r.node /\ method' = "eth_unsubscribe" /\ params' = ps
            /\ outcome' = r.out /\ calls' = r.calls

Unsupported ==
    /\ Idle
    /\ UNCHANGED sends
    /\ \E m \in UnsupportedNames, ps \in NoArgInputs :
         \E r \in {processRequest(node, m, ps)} :
            /\ WithinBounds(r)
            /\ node' = r.node /\ method' = m /\ params' = ps
            /\ outcome' = r.out /\ calls' = r.calls

NotFound ==
    /\ Idle
    /\ UNCHANGED sends
    /\ \E m \in UnknownNames, ps \in NoArgInputs :
         \E r \in {processRequest(node, m, ps)} :
            /\ WithinBounds(r)
            /\ node' = r.node /\ method' = m /\ params' = ps
            /\ outcome' = r.out /\ calls' = r.calls

\* The transport takes the outcome of the finished request.
Respond ==
    /\ outcome # NoOutcome
    /\ method' = ""
    /\ params' = <<>>
    /\ outcome' = NoOutcome
    /\ calls' = <<>>
    /\ UNCHANGED <<node, sends>>

Next ==
    \/ Respond
    \/ eth_accounts \/ eth_blockNumber \/ eth_call \/ eth_chainId \/ eth_coinbase
    \/ eth_estimateGas \/ eth_gasPrice \/ eth_getBalance \/ eth_getBlockByHash
    \/ eth_getBlockByNumber \/ eth_getBlockTransactionCountByHash
    \/ eth_getBlockTransactionCountByNumber \/ eth_getCode \/ eth_getFilterChanges
    \/ eth_getFilterLogs \/ eth_getLogs \/ eth_getStorageAt
    \/ eth_getTransactionByBlockHashAndIndex \/ eth_getTransactionByBlockNumberAndIndex
    \/ eth_getTransactionByHash \/ eth_getTransactionCount \/ eth_getTransactionReceipt
    \/ eth_mining \/ eth_newBlockFilter \/ eth_newFilter \/ eth_newPendingTransactionFilter
    \/ eth_pendingTransactions \/ eth_sendRawTransaction \/ eth_sendTransaction
    \/ eth_sign \/ eth_signTypedData \/ eth_subscribe \/ eth_syncing
    \/ eth_uninstallFilter \/ eth_unsubscribe \/ Unsupported \/ NotFound

Spec == Init /\ [][Next]_vars

(***************************************************************************)
(* eth_sendTransaction, await by await.  _sendTransactionAction suspends   *)
(* at every node call it awaits, and the transport may interleave other    *)
(* requests there.  Each action below is one request resuming at one       *)
(* await: the node call runs against the node as it is at that moment.     *)
(***************************************************************************)
\* The await a request reaches after a field of the TransactionParams literal
\* is resolved: the node is asked only for the fields the request omits.
AfterGasPrice(rpcTx) ==
    IF rpcTx.nonce = Undefined THEN "getAccountNonce" ELSE "getSignedTransaction"
AfterGasLimit(rpcTx) ==
    IF rpcTx.gasPrice = Undefined THEN "getGasPrice" ELSE AfterGasPrice(rpcTx)
FirstAwait(rpcTx) ==
    IF rpcTx.gas = Undefined THEN "getBlockGasLimit" ELSE AfterGasLimit(rpcTx)

\* The request resumes after the node call op and moves to the await `next`.
Resume(r, op, args, next) ==
    [sends[r] EXCEPT !.pc = next, !.calls = Append(@, Call(op, args))]

\* processRequest("eth_sendTransaction", params) up to its first await.
sendTransaction ==
    \E r \in Requests, ps \in SendTransactionInputs :
        /\ sends[r].pc = ""
        /\ LET p == _sendTransactionParams(ps)
               rpcTx == p.args[1]
           IN  sends' = [sends EXCEPT ![r] =
                   IF ~p.ok THEN [NotSent EXCEPT !.pc = "done", !.out = p.error]
                   ELSE [NotSent EXCEPT !.pc = FirstAwait(rpcTx), !.rpcTx = rpcTx,
                                        !.gasLimit = rpcTx.gas, !.gasPrice = rpcTx.gasPrice,
                                        !.nonce = rpcTx.nonce]]
        /\ UNCHANGED <<node, method, params, outcome, calls>>

\* gasLimit: await this._node.getBlockGasLimit()
await_getBlockGasLimit ==
    \E r \in Requests :
        /\ sends[r].pc = "getBlockGasLimit"
        /\ sends' = [sends EXCEPT ![r] =
               [Resume(r, "getBlockGasLimit", <<>>, AfterGasLimit(sends[r].rpcTx))
                   EXCEPT !.gasLimit = Qty(getBlockGasLimit(node))]]
        /\ UNCHANGED <<node, method, params, outcome, calls>>

\* gasPrice: await this._node.getGasPrice()
await_getGasPrice ==
    \E r \in Requests :
        /\ sends[r].pc = "getGasPrice"
        /\ sends' = [sends EXCEPT ![r] =
               [Resume(r, "getGasPrice", <<>>, AfterGasPrice(sends[r].rpcTx))
                   EXCEPT !.gasPrice = Qty(getGasPrice(node))]]
        /\ UNCHANGED <<node, method, params, outcome, calls>>

\* nonce: await this._node.getAccountNonce(rpcTx.from)
await_getAccountNonce ==
    \E r \in Requests :
        /\ sends[r].pc = "getAccountNonce"
        /\ sends' = [sends EXCEPT ![r] =
               [Resume(r, "getAccountNonce", <<sends[r].rpcTx.from>>, "getSignedTransaction")
                   EXCEPT !.nonce = Qty(getAccountNonce(node, sends[r].rpcTx.from.a))]]
        /\ UNCHANGED <<node, method, params, outcome, calls>>

\* const tx = await this._node.getSignedTransaction(txParams)
await_getSignedTransaction ==
    \E r \in Requests :
        /\ sends[r].pc = "getSignedTransaction"
        /\ LET rpcTx == sends[r].rpcTx
               txParams ==
                   TransactionParams(IF rpcTx.to # Undefined THEN rpcTx.to ELSE Data(<<>>),
                                     rpcTx.from, sends[r].gasLimit, sends[r].gasPrice,
                                     IF rpcTx.value # Undefined THEN rpcTx.value ELSE Qty(0),
                                     IF rpcTx.data # Undefined THEN rpcTx.data ELSE Data(<<>>),
                                     sends[r].nonce)
           IN  sends' = [sends EXCEPT ![r] =
                   [Resume(r, "getSignedTransaction", <<txParams>>, "runTransactionInNewBlock")
                       EXCEPT !.tx = getSignedTransaction(node, txParams)]]
        /\ UNCHANGED <<node, method, params, outcome, calls>>

\* await this._node.runTransactionInNewBlock(tx); return bufferToRpcData(tx.hash(true))
await_runTransactionInNewBlock ==
    \E r \in Requests :
        /\ sends[r].pc = "runTransactionInNewBlock"
        /\ LET tx == sends[r].tx
               ran == RunAndReturnHash(node, tx, sends[r].calls)
           IN  /\ WithinBounds(ran)
               /\ node' = ran.node
               /\ sends' = [sends EXCEPT ![r] =
                      [@ EXCEPT !.pc = "done", !.out = ran.out, !.calls = ran.calls]]
        /\ UNCHANGED <<method, params, outcome, calls>>

\* The transport takes the outcome of a finished request.
sendTransaction_Respond ==
    \E r \in Requests :
        /\ sends[r].pc = "done"
        /\ sends' = [sends EXCEPT ![r] = NotSent]
        /\ UNCHANGED <<node, method, params, outcome, calls>>

NextInterleaved ==
    \/ sendTransaction
    \/ await_getBlockGasLimit
    \/ await_getGasPrice
    \/ await_getAccountNonce
    \/ await_getSignedTransaction
    \/ await_runTransactionInNewBlock
    \/ sendTransaction_Respond

SpecInterleaved == Init /\ [][NextInterleaved]_vars

(***************************************************************************)
(* Properties.                                                             *)
(***************************************************************************)
\* A request has been processed and its outcome is in the state.
Handled == outcome # NoOutcome
Failed(kind) == ~outcome.ok /\ outcome.error = kind
\* The node operations the request invoked.
Ops == {calls[i].op : i \in 1..Len(calls)}
MutatingOps ==
    {"runTransactionInNewBlock", "newFilter", "newBlockFilter",
     "newPendingTransactionFilter", "uninstallFilter"}

\* C1: every name of the explicitly-unsupported set fails with
\* MethodNotSupported, every name outside the supported and unsupported sets
\* fails with MethodNotFound, whatever the params, and neither invokes a node
\* operation; a supported name fails with neither of the two.
C1_MethodClassification ==
    Handled =>
        /\ method \in UnsupportedNames => Failed("MethodNotSupported") /\ calls = <<>>
        /\ method \notin SupportedNames \cup UnsupportedNames =>
               Failed("MethodNotFound") /\ calls = <<>>
        /\ method \in SupportedNames =>
               outcome.error \notin {"MethodNotSupported", "MethodNotFound"}

\* An unsupported method called with arguments is refused as not supported.
C1_Witness ==
    /\ method = "eth_getUncleCountByBlockHash"
    /\ Len(params) = 2
    /\ Failed("MethodNotSupported")

\* The methods that take a read-context block tag, and the tag's position.
TagMethods ==
    {"eth_call", "eth_estimateGas", "eth_getBalance", "eth_getCode", "eth_getStorageAt",
     "eth_getTransactionCount"}
TagPosition(m) == IF m = "eth_getStorageAt" THEN 3 ELSE 2

\* C2: for the six read-state methods a tag that is a block number or
\* "earliest" fails with InvalidInput before any node operation; with the tag
\* "latest" or "pending" the request does not fail the tag check, and it invokes
\* the same node operations and has the same outcome as the same request with
\* the tag omitted, on the same node.
C2_BlockTagPolicy ==
    [][ (method' \in TagMethods /\ outcome' # NoOutcome /\ Len(params') = TagPosition(method'))
        => LET tag == params'[Len(params')]
               omitted == processRequest(node, method', SubSeq(params', 1, Len(params') - 1))
           IN  /\ (tag.k = "quantity" \/ tag = Str("earliest")) =>
                      /\ ~outcome'.ok /\ outcome'.error = "InvalidInput"
                      /\ calls' = <<>>
               /\ tag \in {Str("latest"), Str("pending")} =>
                      /\ outcome' # BlockTagError
                      /\ outcome' = omitted.out
                      /\ calls' = omitted.calls
                      /\ node' = omitted.node ]_vars

\* A storage read at "pending" succeeds after the node was asked for the slot.
C2_Witness ==
    /\ method = "eth_getStorageAt"
    /\ Len(params) = 3 /\ params[3] = Str("pending")
    /\ outcome.ok
    /\ Ops = {"getStorageAt"}

\* C3: when one of the six mutating methods fails with InvalidInput or
\* InvalidArguments, the request invoked no mutating node operation, and the
\* node's chain and filter table are what they were before the request.
C3_FailureBeforeMutation ==
    [][ ( /\ method' \in {"eth_sendTransaction", "eth_sendRawTransaction", "eth_newFilter",
                          "eth_subscribe", "eth_uninstallFilter", "eth_unsubscribe"}
          /\ ~outcome'.ok
          /\ outcome'.error \in {"InvalidInput", "InvalidArguments"} )
        => /\ \A i \in 1..Len(calls') : calls'[i].op \notin MutatingOps
           /\ node'.chain = node.chain
           /\ node'.filters = node.filters
           /\ node'.nextFilterId = node.nextFilterId ]_vars

\* A log subscription fails on an unknown blockHash after the node was asked for
\* the block, with filter ids still free to allocate.
C3_Witness ==
    /\ method = "eth_subscribe"
    /\ Failed("InvalidArguments")
    /\ Ops = {"getBlockByHash"}
    /\ node.nextFilterId < MaxFilters

\* The positional schema of every supported method: the least and the greatest
\* number of arguments it takes.
MinArity(m) ==
    CASE m \in {"eth_accounts", "eth_blockNumber", "eth_chainId", "eth_coinbase",
                "eth_gasPrice", "eth_syncing", "eth_mining", "eth_newBlockFilter",
                "eth_newPendingTransactionFilter", "eth_pendingTransactions"} -> 0
      [] m \in {"eth_call", "eth_estimateGas", "eth_getBalance", "eth_getCode",
                "eth_getTransactionCount", "eth_getBlockTransactionCountByHash",
                "eth_getBlockTransactionCountByNumber", "eth_getFilterChanges",
                "eth_getFilterLogs", "eth_getLogs", "eth_getTransactionByHash",
                "eth_getTransactionReceipt", "eth_newFilter", "eth_sendRawTransaction",
                "eth_sendTransaction", "eth_uninstallFilter", "eth_unsubscribe"} -> 1
      [] OTHER -> 2
MaxArity(m) ==
    CASE m \in {"eth_call", "eth_estimateGas", "eth_getBalance", "eth_getCode",
                "eth_getTransactionCount"} -> 2
      [] m \in {"eth_getStorageAt", "eth_subscribe"} -> 3
      [] OTHER -> MinArity(m)

\* C4: a request to a supported method with more arguments than its schema has,
\* or fewer than it requires, fails and invokes no node operation.
C4_ArityChecked ==
    ( /\ Handled
      /\ method \in SupportedNames
      /\ (Len(params) > MaxArity(method) \/ Len(params) < MinArity(method)) )
    => ~outcome.ok /\ calls = <<>>

\* The request carries a well-formed filter request: eth_getLogs and
\* eth_newFilter as their argument, eth_subscribe("logs") as its second.
CarriesFilter ==
    \/ /\ method \in {"eth_getLogs", "eth_newFilter"}
       /\ Len(params) = 1
       /\ Is("rpcFilterRequest", params[1])
    \/ /\ method = "eth_subscribe"
       /\ Len(params) = 3
       /\ params[1] = Str("logs")
       /\ Is("rpcFilterRequest", params[2])
       /\ params[3].k = "function"
RequestFilter == IF method = "eth_subscribe" THEN params[2] ELSE params[1]

\* The request ended by handing criteria to the node (a log query or a new filter).
CriteriaOps == {"getLogs", "newFilter"}
HandedCriteria == Len(calls) > 0 /\ calls[Len(calls)].op \in CriteriaOps
Criteria == calls[Len(calls)].args[1]

\* C5: a filter request with blockHash together with fromBlock or toBlock fails
\* with InvalidArguments "blockHash is mutually exclusive with
\* fromBlock/toBlock", and the node is not asked for anything.
C5_BlockHashExcludesRange ==
    ( /\ CarriesFilter
      /\ RequestFilter.blockHash # Undefined
      /\ (RequestFilter.fromBlock # Undefined \/ RequestFilter.toBlock # Undefined) )
    => /\ outcome = InvalidArgumentsError(
                        <<"blockHash is mutually exclusive with fromBlock/toBlock">>)
       /\ calls = <<>>

\* A subscription with the hash of a block the node has, and toBlock alone, is refused.
C5_Witness ==
    /\ method = "eth_subscribe"
    /\ CarriesFilter
    /\ RequestFilter.blockHash = Hash(BlockHashOf(0))
    /\ RequestFilter.fromBlock = Undefined
    /\ RequestFilter.toBlock # Undefined
    /\ Failed("InvalidArguments")

\* C6: a filter request with blockHash alone fails with InvalidArguments
\* "blockHash cannot be found" when the node has no such block, without
\* creating a filter or running a log query; when the node has the block, the
\* criteria handed to the node have fromBlock and toBlock equal to its number.
C6_BlockHashResolved ==
    ( /\ CarriesFilter
      /\ RequestFilter.blockHash # Undefined
      /\ RequestFilter.fromBlock = Undefined
      /\ RequestFilter.toBlock = Undefined )
    => LET known == {i \in 1..Len(node.chain) : node.chain[i].hash = RequestFilter.blockHash.h}
       IN  IF known = {}
           THEN /\ outcome = InvalidArgumentsError(<<"blockHash cannot be found">>)
                /\ Ops \cap (CriteriaOps \cup MutatingOps) = {}
           ELSE /\ outcome.ok
                /\ HandedCriteria
                /\ \A i \in known : /\ Criteria.fromBlock = node.chain[i].number
                                    /\ Criteria.toBlock = node.chain[i].number

\* A filter is created for the first mined block, found by its hash.
C6_Witness ==
    /\ method = "eth_newFilter"
    /\ CarriesFilter
    /\ RequestFilter.blockHash = Hash(BlockHashOf(1))
    /\ outcome.ok
    /\ HandedCriteria
    /\ Criteria.fromBlock = 1 /\ Criteria.toBlock = 1

\* What a bound of a filter range resolves to.
HeadSentinel == 0 - 1
Resolved(bound) ==
    CASE bound = Str("earliest") -> 0
      [] bound = Undefined \/ bound = Str("latest") -> HeadSentinel
      [] OTHER -> bound.n

\* C7: in a filter request without blockHash each of fromBlock and toBlock
\* resolves on its own: "earliest" to 0, absent or "latest" to the head sentinel
\* -1, a block number to itself and never to the sentinel; "pending" in either
\* fails with InvalidArguments.
C7_RangeResolution ==
    (CarriesFilter /\ RequestFilter.blockHash = Undefined)
    => IF RequestFilter.fromBlock = Str("pending") \/ RequestFilter.toBlock = Str("pending")
       THEN Failed("InvalidArguments") /\ ~HandedCriteria
       ELSE /\ outcome.ok
            /\ HandedCriteria
            /\ Criteria.fromBlock = Resolved(RequestFilter.fromBlock)
            /\ Criteria.toBlock = Resolved(RequestFilter.toBlock)
            /\ RequestFilter.fromBlock.k = "quantity" => Criteria.fromBlock # HeadSentinel
            /\ RequestFilter.toBlock.k = "quantity" => Criteria.toBlock # HeadSentinel

\* A log query from a block number down to an earlier one reaches the node as given.
C7_Witness ==
    /\ method = "eth_getLogs"
    /\ CarriesFilter
    /\ RequestFilter.fromBlock = Qty(1) /\ RequestFilter.toBlock = Qty(0)
    /\ HandedCriteria
    /\ Criteria.fromBlock = 1 /\ Criteria.toBlock = 0

\* C8: the topics handed to the node: none for an absent or empty topics field;
\* otherwise one slot per slot of the request, in order, a bare hash as the
\* one-element list of it, a list as itself, null as null, and never a bare hash.
C8_TopicNormalization ==
    (CarriesFilter /\ HandedCriteria)
    => LET topics == RequestFilter.topics
           out == Criteria.topics
       IN  IF topics = Undefined \/ Len(topics.l) = 0
           THEN out = <<>>
           ELSE /\ Len(out) = Len(topics.l)
                /\ \A i \in 1..Len(topics.l) :
                      /\ topics.l[i].k = "hash" => out[i] = List(<<topics.l[i]>>)
                      /\ topics.l[i].k = "array" => out[i] = topics.l[i]
                      /\ topics.l[i].k = "null" => out[i] = Null
                      /\ out[i].k # "hash"

\* A filter with a bare hash, a list and a list holding null reaches the node.
C8_Witness ==
    /\ method = "eth_newFilter"
    /\ CarriesFilter
    /\ HandedCriteria
    /\ RequestFilter.topics = List(<<Topic1, List(<<Topic1>>), List(<<Null, Topic2>>)>>)
    /\ Criteria.topics = <<List(<<Topic1>>), List(<<Topic1>>), List(<<Null, Topic2>>)>>

\* C9: eth_call hands runCall every supplied field unchanged and fills every
\* omitted one: to and data with the empty bytes, value with 0, gas with the
\* node's block gas limit, gasPrice with the node's gas price, from with the
\* first local account or the zero address; the node is asked for a default
\* exactly when the field was omitted.
C9_CallDefaults ==
    (Handled /\ method = "eth_call" /\ outcome.ok)
    => LET rpcCall == params[1]
           last == calls[Len(calls)]
           callParams == last.args[1]
           Given(f) == rpcCall[f] # Undefined
       IN  /\ last.op = "runCall"
           /\ callParams.to = IF Given("to") THEN rpcCall.to ELSE Data(<<>>)
           /\ callParams.data = IF Given("data") THEN rpcCall.data ELSE Data(<<>>)
           /\ callParams.value = IF Given("value") THEN rpcCall.value ELSE Qty(0)
           /\ callParams.gasLimit = IF Given("gas") THEN rpcCall.gas ELSE Qty(node.blockGasLimit)
           /\ callParams.gasPrice =
                  IF Given("gasPrice") THEN rpcCall.gasPrice ELSE Qty(node.gasPrice)
           /\ callParams.from =
                  IF Given("from") THEN rpcCall.from
                  ELSE IF node.localAccounts = <<>> THEN Addr(0)
                  ELSE Addr(node.localAccounts[1])
           /\ "getBlockGasLimit" \in Ops <=> ~Given("gas")
           /\ "getGasPrice" \in Ops <=> ~Given("gasPrice")
           /\ "getLocalAccountAddresses" \in Ops <=> ~Given("from")
           /\ Ops \subseteq {"runCall", "getBlockGasLimit", "getGasPrice",
                             "getLocalAccountAddresses"}

\* A call with only `to` supplied, on a node with local accounts.
C9_Witness ==
    /\ method = "eth_call"
    /\ outcome.ok
    /\ params = <<[EmptyCall EXCEPT !.to = Addr(1)]>>
    /\ Len(node.localAccounts) = 2
    /\ calls[Len(calls)].args[1].from = Addr(node.localAccounts[1])

\* The calls of runTransactionInNewBlock the request made.
Runs == {i \in 1..Len(calls) : calls[i].op = "runTransactionInNewBlock"}

\* C10: eth_sendRawTransaction turns a decode failure into exactly one of:
\* InvalidInput "Invalid transaction" when the message is "invalid remainder";
\* InvalidInput with the original message when the message mentions EIP155; the
\* failure itself, unchanged, otherwise.  None of them runs the transaction;
\* a decoded transaction is run exactly once.
C10_DecodeFailureClasses ==
    (Handled /\ method = "eth_sendRawTransaction" /\ Len(params) = 1 /\ params[1].k = "data")
    => LET decoded == Transaction(params[1])
       IN  IF decoded.ok THEN Cardinality(Runs) = 1
           ELSE /\ Runs = {}
                /\ IF decoded.message = <<"invalid remainder">>
                   THEN outcome = InvalidInputError(<<"Invalid transaction">>)
                   ELSE IF \E i \in 1..Len(decoded.message) : decoded.message[i] = "EIP155"
                   THEN outcome = InvalidInputError(decoded.message)
                   ELSE /\ ~outcome.ok
                        /\ outcome.error \notin {"InvalidInput", "InvalidArguments"}
                        /\ outcome.message = decoded.message

\* Bytes with a replay-protection mismatch are refused with the decoder's message.
C10_Witness ==
    /\ method = "eth_sendRawTransaction"
    /\ params = <<Data(<<3>>)>>
    /\ Failed("InvalidInput")
    /\ outcome.message = Transaction(Data(<<3>>)).message
    /\ Runs = {}

\* C11: eth_subscribe of kind "logs" whose criteria are omitted (no second
\* argument before the callback, or undefined there) fails with
\* InvalidArguments "missing params argument" and leaves the node as it was,
\* having invoked no node operation; eth_subscribe of kind "newHeads" with a
\* callback succeeds, invokes exactly newBlockFilter(callback), adds exactly the
\* one block filter under the id the node allocates next, and returns that id.
C11_SubscribeKinds ==
    [][ ( /\ method' = "eth_subscribe"
          /\ outcome' # NoOutcome
          /\ Len(params') \in 2..3
          /\ params'[Len(params')].k = "function"
          /\ Len(params') = 3 => Is("optionalRpcFilterRequest", params'[2]) )
        => /\ ( /\ params'[1] = Str("logs")
                /\ Len(params') = 3 => params'[2] = Undefined )
              => /\ outcome' = InvalidArgumentsError(<<"missing params argument">>)
                 /\ calls' = <<>>
                 /\ node' = node
           /\ params'[1] = Str("newHeads")
              => /\ outcome' = Return(numberToRpcQuantity(node.nextFilterId))
                 /\ calls' = <<Call("newBlockFilter", <<params'[Len(params')]>>)>>
                 /\ node'.filters = node.filters \cup {Filter(node.nextFilterId, "block", TRUE)}
                 /\ Cardinality(node'.filters) = Cardinality(node.filters) + 1
                 /\ node'.nextFilterId = node.nextFilterId + 1
                 /\ node'.chain = node.chain ]_vars

\* A newHeads subscription made when a filter already exists gets the next id.
C11_Witness ==
    /\ method = "eth_subscribe"
    /\ params = <<Str("newHeads"), Callback>>
    /\ outcome = Return(numberToRpcQuantity(1))
    /\ Cardinality(node.filters) = 2
    /\ Filter(1, "block", TRUE) \in node.filters

\* C12: an eth_subscribe request with no arguments, or whose last argument is
\* not a function, or with a function at a position before the last, fails
\* with InvalidInput, invokes no node operation that registers or releases a
\* filter, and leaves the node as it was.
C12_CallbackLast ==
    [][ ( /\ method' = "eth_subscribe"
          /\ outcome' # NoOutcome
          /\ \/ Len(params') = 0
             \/ params'[Len(params')].k # "function"
             \/ \E i \in 1..(Len(params') - 1) : params'[i].k = "function" )
        => /\ ~outcome'.ok /\ outcome'.error = "InvalidInput"
           /\ \A i \in 1..Len(calls') : calls'[i].op \notin MutatingOps
           /\ node' = node ]_vars

\* The callback given first and the subscription name last is refused.
C12_Witness ==
    /\ method = "eth_subscribe"
    /\ params = <<Callback, Str("newHeads")>>
    /\ Failed("InvalidInput")
    /\ calls = <<>>

\* The requests that create a polling filter, and the ones that release a filter.
PollingCreators == {"eth_newFilter", "eth_newBlockFilter", "eth_newPendingTransactionFilter"}
Releasers == {"eth_uninstallFilter", "eth_unsubscribe"}
\* The ids with a live filter in the node's table.
LiveIds(n) == {f.id : f \in n.filters}

BlocksByHash(chain, h) == {i \in 1..Len(chain) : chain[i].hash = h}
BlocksByNumber(chain, num) == {i \in 1..Len(chain) : chain[i].number = num}
TransactionHashes(chain) ==
    UNION {{chain[i].transactions[j].hash : j \in 1..Len(chain[i].transactions)} :
              i \in 1..Len(chain)}

\* What a lookup in a set of blocks must give: null when the set is empty,
\* otherwise what the found block determines.
CountIn(chain, found, out) ==
    IF found = {} THEN out = Return(Null)
    ELSE \A i \in found : out = Return(numberToRpcQuantity(Len(chain[i].transactions)))
TransactionIn(chain, found, index, out) ==
    IF found = {} THEN out = Return(Null)
    ELSE \A i \in found :
            IF index >= Len(chain[i].transactions) THEN out = Return(Null)
            ELSE out.ok /\ out.value # Null

\* C14: a well-formed lookup of a block, a transaction or a receipt the node
\* does not have returns null, never an error, and leaves the node as it was:
\* by block hash or number for the transaction counts and eth_getBlockByHash,
\* by block and index (unknown block, or index at or past the number of the
\* block's transactions) and by transaction hash for the transaction and
\* receipt lookups.  For a known block the count methods return the encoded
\* number of its transactions; a known transaction is returned, not null.
C14_UnknownIsNull ==
    [][ outcome' # NoOutcome =>
        LET chain == node.chain
            a == params'[1]
            b == params'[2]
            one(kind) == Len(params') = 1 /\ a.k = kind
            two(kind1, kind2) == Len(params') = 2 /\ a.k = kind1 /\ b.k = kind2
        IN  /\ (method' = "eth_getBlockTransactionCountByHash" /\ one("hash"))
               => CountIn(chain, BlocksByHash(chain, a.h), outcome') /\ node' = node
            /\ (method' = "eth_getBlockTransactionCountByNumber" /\ one("quantity"))
               => CountIn(chain, BlocksByNumber(chain, a.n), outcome') /\ node' = node
            /\ (method' = "eth_getBlockByHash" /\ two("hash", "boolean"))
               => /\ IF BlocksByHash(chain, a.h) = {} THEN outcome' = Return(Null)
                     ELSE outcome'.ok /\ outcome'.value # Null
                  /\ node' = node
            /\ (method' = "eth_getTransactionByBlockHashAndIndex" /\ two("hash", "quantity"))
               => TransactionIn(chain, BlocksByHash(chain, a.h), b.n, outcome') /\ node' = node
            /\ (method' = "eth_getTransactionByBlockNumberAndIndex" /\ two("quantity", "quantity"))
               => TransactionIn(chain, BlocksByNumber(chain, a.n), b.n, outcome') /\ node' = node
            /\ (method' \in {"eth_getTransactionByHash", "eth_getTransactionReceipt"} /\ one("hash"))
               => /\ IF a.h \notin TransactionHashes(chain) THEN outcome' = Return(Null)
                     ELSE outcome'.ok /\ outcome'.value # Null
                  /\ node' = node ]_vars

\* A lookup in a known block at the index just past its one transaction gives null.
C14_Witness ==
    /\ method = "eth_getTransactionByBlockNumberAndIndex"
    /\ params = <<Qty(1), Qty(1)>>
    /\ Len(node.chain) = 2
    /\ Len(node.chain[2].transactions) = 1
    /\ outcome = Return(Null)

\* The node operations a request in flight has invoked so far, in order.
OpsOf(send) == [i \in 1..Len(send.calls) |-> send.calls[i].op]
\* The node operations of a whole eth_sendTransaction, given what it omits.
SendOrder(rpcTx) ==
    (IF rpcTx.gas = Undefined THEN <<"getBlockGasLimit">> ELSE <<>>)
        \o (IF rpcTx.gasPrice = Undefined THEN <<"getGasPrice">> ELSE <<>>)
        \o (IF rpcTx.nonce = Undefined THEN <<"getAccountNonce">> ELSE <<>>)
        \o <<"getSignedTransaction", "runTransactionInNewBlock">>

\* C15: when an eth_sendTransaction that omitted the nonce runs its
\* transaction, the nonce the transaction carries (the one getAccountNonce
\* reported) is the sender's nonce in the node at that moment, whatever other
\* requests were interleaved; and the request's node calls were made in the
\* order gas limit, gas price, nonce, sign, run.
C15_NonceCurrentWhenRun ==
    [][ \A r \in Requests :
           (sends[r].pc = "runTransactionInNewBlock" /\ sends'[r].pc = "done")
           => /\ sends[r].rpcTx.nonce = Undefined
                 => sends[r].tx.nonce = getAccountNonce(node, sends[r].tx.from)
              /\ OpsOf(sends'[r]) = SendOrder(sends[r].rpcTx) ]_vars

====
